---- MODULE Spec2Model ----
(***************************************************************************)
(* Eliza chat front-end of the XMRT DAO: the message dispatcher of         *)
(* ElizaApiService (sendMessage), its fallback responder, the keyword      *)
(* classifiers, and the conversation-memory gateway (edge function and     *)
(* the SQL functions behind it).                                           *)
(*                                                                         *)
(* Representation.  A text is a sequence of one-character strings, so that *)
(* String.includes is an exact substring search and toLowerCase is a real  *)
(* conversion.  The five canned replies of the fallback responder are      *)
(* never searched by the code; each is kept as a text of one chunk holding *)
(* the literal of the source (a leading emoji, which is not ASCII, is      *)
(* left out).  confidence_score is kept in hundredths (0.85 is 85) and     *)
(* uptime in tenths (99.5 is 995).  A field that a JavaScript object does  *)
(* not have is a field the record does not have.                           *)
(***************************************************************************)
EXTENDS Integers, Sequences, FiniteSets, TLC

----------------------------------------------------------------------------
(* Keyword literals of ElizaApiService.ts *)

w_emergency ==
    <<"e","m","e","r","g","e","n","c","y">>

w_urgent ==
    <<"u","r","g","e","n","t">>

w_critical ==
    <<"c","r","i","t","i","c","a","l">>

w_governance ==
    <<"g","o","v","e","r","n","a","n","c","e">>

w_proposal ==
    <<"p","r","o","p","o","s","a","l">>

w_vote ==
    <<"v","o","t","e">>

w_treasury ==
    <<"t","r","e","a","s","u","r","y">>

w_fund ==
    <<"f","u","n","d">>

w_investment ==
    <<"i","n","v","e","s","t","m","e","n","t">>

w_recommend ==
    <<"r","e","c","o","m","m","e","n","d">>

w_suggest ==
    <<"s","u","g","g","e","s","t">>

w_advice ==
    <<"a","d","v","i","c","e">>

w_security ==
    <<"s","e","c","u","r","i","t","y">>

w_audit ==
    <<"a","u","d","i","t">>

w_hello ==
    <<"h","e","l","l","o">>

w_hi ==
    <<"h","i">>

w_alert ==
    <<"a","l","e","r","t">>

w_excellent ==
    <<"e","x","c","e","l","l","e","n","t">>

w_success ==
    <<"s","u","c","c","e","s","s">>

w_optimiz ==
    <<"o","p","t","i","m","i","z">>

w_analyz ==
    <<"a","n","a","l","y","z">>

w_calculat ==
    <<"c","a","l","c","u","l","a","t">>

w_review ==
    <<"r","e","v","i","e","w">>

w_welcome ==
    <<"w","e","l","c","o","m","e">>

w_help ==
    <<"h","e","l","p">>

----------------------------------------------------------------------------
(* String primitives *)

\* String.prototype.toLowerCase, one character
LowerChar(c) ==
    CASE c = "A" -> "a" [] c = "B" -> "b" [] c = "C" -> "c" [] c = "D" -> "d"
      [] c = "E" -> "e" [] c = "F" -> "f" [] c = "G" -> "g" [] c = "H" -> "h"
      [] c = "I" -> "i" [] c = "J" -> "j" [] c = "K" -> "k" [] c = "L" -> "l"
      [] c = "M" -> "m" [] c = "N" -> "n" [] c = "O" -> "o" [] c = "P" -> "p"
      [] c = "Q" -> "q" [] c = "R" -> "r" [] c = "S" -> "s" [] c = "T" -> "t"
      [] c = "U" -> "u" [] c = "V" -> "v" [] c = "W" -> "w" [] c = "X" -> "x"
      [] c = "Y" -> "y" [] c = "Z" -> "z" [] OTHER -> c

\* String.prototype.toLowerCase
toLowerCase(s) ==
    [i \in 1..Len(s) |-> LowerChar(s[i])]

\* String.prototype.includes: kw occurs in s as a contiguous substring
includes(s, kw) ==
    \E i \in 1..(Len(s) - Len(kw) + 1) :
        \A j \in 1..Len(kw) : s[i + j - 1] = kw[j]

----------------------------------------------------------------------------
(* Keyword classifiers of the dispatcher *)

\* analyzeDecisionType with the governance and treasury checks placed before
\* the emergency check
analyzeDecisionType_govfirst(input, response) ==
    LET lowerInput == toLowerCase(input) IN
    IF includes(lowerInput, w_governance) \/ includes(lowerInput, w_proposal)
          \/ includes(lowerInput, w_vote)
      THEN "autonomous"
    ELSE IF includes(lowerInput, w_treasury) \/ includes(lowerInput, w_fund)
          \/ includes(lowerInput, w_investment)
      THEN "autonomous"
    ELSE IF includes(lowerInput, w_emergency) \/ includes(lowerInput, w_urgent)
          \/ includes(lowerInput, w_critical)
      THEN "emergency"
    ELSE IF includes(lowerInput, w_recommend) \/ includes(lowerInput, w_suggest)
          \/ includes(lowerInput, w_advice)
      THEN "advisory"
    ELSE "general"

\* analyzeDecisionType searching the input as typed, without toLowerCase
analyzeDecisionType_noLower(input, response) ==
    IF includes(input, w_emergency) \/ includes(input, w_urgent)
          \/ includes(input, w_critical)
      THEN "emergency"
    ELSE IF includes(input, w_governance) \/ includes(input, w_proposal)
          \/ includes(input, w_vote)
      THEN "autonomous"
    ELSE IF includes(input, w_treasury) \/ includes(input, w_fund)
          \/ includes(input, w_investment)
      THEN "autonomous"
    ELSE IF includes(input, w_recommend) \/ includes(input, w_suggest)
          \/ includes(input, w_advice)
      THEN "advisory"
    ELSE "general"

\* analyzeDecisionType(input, response): the response is not looked at
analyzeDecisionType(input, response) ==
    LET lowerInput == toLowerCase(input) IN
    IF includes(lowerInput, w_emergency) \/ includes(lowerInput, w_urgent)
          \/ includes(lowerInput, w_critical)
      THEN "emergency"
    ELSE IF includes(lowerInput, w_governance) \/ includes(lowerInput, w_proposal)
          \/ includes(lowerInput, w_vote)
      THEN "autonomous"
    ELSE IF includes(lowerInput, w_treasury) \/ includes(lowerInput, w_fund)
          \/ includes(lowerInput, w_investment)
      THEN "autonomous"
    ELSE IF includes(lowerInput, w_recommend) \/ includes(lowerInput, w_suggest)
          \/ includes(lowerInput, w_advice)
      THEN "advisory"
    ELSE "general"

\* extractActions(response): three independent checks, in push order
extractActions(response) ==
    LET lower == toLowerCase(response) IN
    (IF includes(lower, w_recommend)
       THEN << [type |-> "recommendation",
                description |-> "AI-generated recommendation based on analysis",
                risk_level |-> "low"] >>
       ELSE << >>)
    \o
    (IF includes(lower, w_vote) \/ includes(lower, w_proposal)
       THEN << [type |-> "governance",
                description |-> "Governance action or proposal review",
                risk_level |-> "medium"] >>
       ELSE << >>)
    \o
    (IF includes(lower, w_treasury) \/ includes(lower, w_fund)
       THEN << [type |-> "treasury",
                description |-> "Treasury management or optimization",
                risk_level |-> "high"] >>
       ELSE << >>)

\* determineAvatarEmotion(content, decisionType)
determineAvatarEmotion(content, decisionType) ==
    LET lowerContent == toLowerCase(content) IN
    IF decisionType = "emergency" \/ includes(lowerContent, w_critical)
          \/ includes(lowerContent, w_alert)
      THEN "concerned"
    ELSE IF includes(lowerContent, w_excellent) \/ includes(lowerContent, w_success)
          \/ includes(lowerContent, w_optimiz)
      THEN "excited"
    ELSE IF includes(lowerContent, w_analyz) \/ includes(lowerContent, w_calculat)
          \/ includes(lowerContent, w_review)
      THEN "thinking"
    ELSE IF includes(lowerContent, w_welcome) \/ includes(lowerContent, w_hello)
          \/ includes(lowerContent, w_help)
      THEN "happy"
    ELSE "neutral"

----------------------------------------------------------------------------
(* Fallback responder *)

DefaultContent ==
    <<"Hello! I'm Eliza, your autonomous AI assistant for the XMRT-Ecosystem DAO. I'm here to help with governance, treasury management, and community questions.">>

GovernanceContent ==
    <<"I've analyzed the current governance situation. There are 3 active proposals requiring attention. Based on my autonomous analysis, I recommend voting YES on Proposal #42 (Treasury Optimization) with 89% confidence. Would you like me to execute this governance action autonomously?">>

TreasuryContent ==
    <<"Treasury status: $2.4M total value locked across 6 chains. Current allocation: 45% ETH, 30% stablecoins, 25% XMRT tokens. I've identified a 12% optimization opportunity through cross-chain yield farming. Shall I proceed with autonomous rebalancing?">>

SecurityContent ==
    <<"Security systems are fully operational. No threats detected in the last 24 hours. All smart contracts are secure with 99.7% uptime. Emergency protocols are on standby. System integrity: EXCELLENT.">>

GreetingContent ==
    <<"Greetings! I'm operating at full capacity with Gemini AI integration. My autonomous systems are monitoring 847 data points across the XMRT ecosystem. What aspect of the DAO would you like me to analyze or manage?">>

\* the fixed single suggested action of the fallback responder
GuidanceAction ==
    [type |-> "guidance",
     description |-> "Providing information and guidance",
     risk_level |-> "low"]

\* SimulatedBranch without the greeting branch: "hello" falls to the default
SimulatedBranch_nogreeting(lowerInput) ==
    IF includes(lowerInput, w_governance) \/ includes(lowerInput, w_proposal)
      THEN [content |-> GovernanceContent, decision_type |-> "autonomous"]
    ELSE IF includes(lowerInput, w_treasury) \/ includes(lowerInput, w_fund)
      THEN [content |-> TreasuryContent, decision_type |-> "autonomous"]
    ELSE IF includes(lowerInput, w_security) \/ includes(lowerInput, w_audit)
      THEN [content |-> SecurityContent, decision_type |-> "advisory"]
    ELSE [content |-> DefaultContent, decision_type |-> "general"]

\* SimulatedBranch with the security branch tested before the treasury branch
SimulatedBranch_securityFirst(lowerInput) ==
    IF includes(lowerInput, w_governance) \/ includes(lowerInput, w_proposal)
      THEN [content |-> GovernanceContent, decision_type |-> "autonomous"]
    ELSE IF includes(lowerInput, w_security) \/ includes(lowerInput, w_audit)
      THEN [content |-> SecurityContent, decision_type |-> "advisory"]
    ELSE IF includes(lowerInput, w_treasury) \/ includes(lowerInput, w_fund)
      THEN [content |-> TreasuryContent, decision_type |-> "autonomous"]
    ELSE IF includes(lowerInput, w_hello) \/ includes(lowerInput, w_hi)
      THEN [content |-> GreetingContent, decision_type |-> "general"]
    ELSE [content |-> DefaultContent, decision_type |-> "general"]

\* the if / else-if chain of getSimulatedResponse over the lower-cased input:
\* the canned content and the decision type of the first branch that matches
SimulatedBranch(lowerInput) ==
    IF includes(lowerInput, w_governance) \/ includes(lowerInput, w_proposal)
      THEN [content |-> GovernanceContent, decision_type |-> "autonomous"]
    ELSE IF includes(lowerInput, w_treasury) \/ includes(lowerInput, w_fund)
      THEN [content |-> TreasuryContent, decision_type |-> "autonomous"]
    ELSE IF includes(lowerInput, w_security) \/ includes(lowerInput, w_audit)
      THEN [content |-> SecurityContent, decision_type |-> "advisory"]
    ELSE IF includes(lowerInput, w_hello) \/ includes(lowerInput, w_hi)
      THEN [content |-> GreetingContent, decision_type |-> "general"]
    ELSE [content |-> DefaultContent, decision_type |-> "general"]

\* getSimulatedResponse that also reports the actions found in its own
\* canned content, as the AI path does with extractActions
getSimulatedResponse_extraAction(input) ==
    LET branch == SimulatedBranch(toLowerCase(input)) IN
    [content |-> branch.content,
     confidence_score |-> 85,
     decision_type |-> branch.decision_type,
     actions_suggested |->
         IF branch.decision_type = "autonomous"
           THEN << GuidanceAction,
                   [type |-> "governance",
                    description |-> "Governance action or proposal review",
                    risk_level |-> "medium"] >>
           ELSE << GuidanceAction >>,
     system_status |->
         [uptime |-> 995, queue_size |-> 2,
          active_agents |-> <<"governance-monitor", "treasury-optimizer",
                              "security-scanner">>]]

\* getSimulatedResponse(input): no field of the service is read
getSimulatedResponse(input) ==
    LET branch == SimulatedBranch(toLowerCase(input)) IN
    [content |-> branch.content,
     confidence_score |-> 85,
     decision_type |-> branch.decision_type,
     actions_suggested |-> << GuidanceAction >>,
     system_status |->
         [uptime |-> 995, queue_size |-> 2,
          active_agents |-> <<"governance-monitor", "treasury-optimizer",
                              "security-scanner">>]]

----------------------------------------------------------------------------
(* Bounds of the model *)

\* dispatches (calls of sendMessage) made in one behaviour
MaxTurns == 1

\* store requests issued by the raw callers of the memory gateway
MaxStores == 2

\* words in a generated input text
MaxWords == 2

\* monitoring cycles started in one behaviour, the one of the constructor
\* included
MaxCycles == 2

\* dispatches made in one behaviour of a session of several turns
MaxSessionTurns == 2

\* clicks on the clear button in one behaviour of the page
MaxClears == 1

\* calls of speakText in one behaviour of the TTS service
MaxClips == 3

----------------------------------------------------------------------------
(* State *)

VARIABLES
    \* ElizaApiService fields
    model,               \* this.model is set (an API key was present)
    config,              \* this.config: [videoAvatarEnabled]
    conversationId,      \* this.conversationId: << >> (null) or <<id>>
    conversationMemory,  \* this.conversationMemory: << >> (null) or <<record>>
    systemEndpoints,     \* this.systemEndpoints, the records mutated in place
    avatarObjs,          \* the VideoAvatarState objects allocated so far
    avatarState,         \* this.avatarState: the index of the current object
    avatarInit,          \* initializeVideoAvatar: "none", "pending" or "done"
    checking,            \* per endpoint: position of its check in the cycle
    cycle,               \* monitoring cycles started so far; a Date written by
                         \* a check is the number of cycles started by then
    \* the dispatcher, one call of sendMessage
    send,                \* position and locals of the call in progress
    promise,             \* what the latest call of sendMessage settled with:
                         \* << >> while it is pending (or before the first call)
    turnsLeft,           \* calls of sendMessage that may still be started
    aiCalls,             \* calls of chat.sendMessage made by the call in progress
                         \* (or by the latest one, once it has settled)
    scriptText,          \* the input of the scripted dispatch (SpecClassify)
    \* the conversation-memory gateway
    req,                 \* per caller: the HTTP request in flight and its answer
    db,                  \* table conversation_memory: identity -> << >> or <<row>>
    nextId,              \* next value of gen_random_uuid()
    stores,              \* store requests issued by the raw callers
    \* observations used to state the claims about the gateway
    acked,               \* per identity: messages whose store was acknowledged and
                         \* that no clear has followed since that store began
    lastRetrieve,        \* the answer of the latest retrieve, with the values of
                         \* acked and fresh at the moment the row was read
    fresh,               \* per identity: a clear has succeeded and no store has
                         \* written since
    \* callers of the service on the page
    report,              \* the call of getSystemReport: its position, the
                         \* positions of the checks of its cycle, its result
    ui,                  \* ElizaChatBot: the React state of the chat page and
                         \* the positions of its handlers
    tts                  \* TTSService: config, audioQueue, isPlaying, the calls
                         \* of speakText in flight and the Audio elements alive

vars ==
    << model, config, conversationId, conversationMemory, systemEndpoints,
       avatarObjs, avatarState, avatarInit, checking, cycle, send, promise,
       turnsLeft, aiCalls, scriptText, req, db, nextId, stores, acked,
       lastRetrieve, fresh, report, ui, tts >>

\* the variables of the page around the dispatcher, which no step of the
\* dispatcher, the timer's monitor or the gateway changes
pageVars ==
    << report, ui, tts >>

\* the variables of the service, which no step of the gateway changes
serviceVars ==
    << model, config, conversationId, conversationMemory, systemEndpoints,
       avatarObjs, avatarState, avatarInit, checking, cycle, send, promise,
       turnsLeft, aiCalls, scriptText >>

\* the variables of the gateway's table and of the observations on it
tableVars ==
    << db, nextId, stores, acked, lastRetrieve, fresh >>

\* null and a present value of a nullable field
Null == << >>

\* ChatBot.tsx 292-304: the state of the page after its first render; the
\* log starts with the greeting of type system.  pc is the position of the
\* sendMessage handler, clear that of the clearConversation handler,
\* inFlight counts the calls of the sendMessage handler that have not
\* finished, clearsLeft the clicks on the clear button that may still be
\* made, clearResult is what the latest clear request settled with,
\* clearedDuringAI records that a clear was invoked and succeeded
\* while the dispatch in flight was awaiting the AI response
InitialUi ==
    [messages |-> << [sender |-> "eliza", type |-> "system", content |-> "greeting"] >>,
     inputValue |-> << >>,
     isTyping |-> FALSE,
     audioEnabled |-> TRUE,
     pc |-> "idle",
     inFlight |-> 0,
     clear |-> "idle",
     clearsLeft |-> MaxClears,
     clearInvokedAt |-> "idle",
     clearResult |-> "none",
     clearedDuringAI |-> FALSE,
     toast |-> "none"]

\* part_001 16-26 and ChatBot.tsx 309-313: a new TTSService with autoPlay and
\* enabled.  generating is the set of clips whose speakText call awaits its
\* speech, playing the set of clips whose Audio element has been started and
\* has not reported its end or failure, timers the number of pending
\* setTimeout(playNext) callbacks; enqueued, started and dropped record the
\* clips in the order they were pushed and started, the clips that
\* clearQueue removed, and the clips pushed or started while the service was
\* disabled
InitialTts ==
    [enabled |-> TRUE,
     autoPlay |-> TRUE,
     audioQueue |-> << >>,
     isPlaying |-> FALSE,
     generating |-> {},
     playing |-> {},
     timers |-> 0,
     clips |-> 0,
     enqueued |-> << >>,
     started |-> << >>,
     dropped |-> {},
     whileDisabled |-> {}]

Some(v) == << v >>

----------------------------------------------------------------------------
(* Memory gateway: the edge function conversation-memory and the SQL       *)
(* functions update_conversation_memory / clear_conversation_memory.       *)
(* A request is identified by the caller that awaits it; the key of the    *)
(* remote record is the caller's identity (client IP, session fingerprint).*)

\* the three asynchronous tasks of the service that call the gateway
ServiceCallers == {"init", "send", "clear"}

\* callers that invoke the edge function directly
RawCallers == {"c1", "c2", "c3"}

Callers == ServiceCallers \cup RawCallers

Identities == {"A", "B"}

\* (clientIP, sessionFingerprint) derived from the request headers: the
\* browser session is one identity, c1 and c2 share it, c3 is another one
Identity(c) ==
    IF c = "c3" THEN "B" ELSE "A"

NoRequest == [phase |-> "none"]

\* fetch(...conversation-memory, {action, message}) has been issued
Request(action, message) ==
    [phase |-> "sent", action |-> action, message |-> message,
     memory_id |-> 0, cleared |-> FALSE]

\* the JSON body of an answer of the edge function, as far as a caller reads
\* it: success, and memory (the row or null) for a retrieve
Answer(success, memory) ==
    [threw |-> FALSE, success |-> success, memory |-> memory]

\* the fetch (or response.json()) threw instead of answering
Rejected ==
    [threw |-> TRUE, success |-> FALSE, memory |-> << >>]

\* the request of a caller has settled with this result
Replied(result) ==
    [phase |-> "replied", result |-> result]

\* update_conversation_memory, SELECT id ... INTO memory_id (0 is NULL)
GwStoreSelect(c) ==
    /\ req[c].phase = "sent"
    /\ req[c].action = "store"
    /\ req' = [req EXCEPT ![c] =
                 [@ EXCEPT !.phase = "selected",
                           !.memory_id = IF db[Identity(c)] = Null THEN 0
                                         ELSE db[Identity(c)][1].id]]
    /\ UNCHANGED << serviceVars, db, nextId, stores, acked, lastRetrieve, fresh,
                    pageVars >>

\* the row written by the INSERT branch
InsertedRow(id, message) ==
    [id |-> id, conversation_context |-> << message >>, total_interactions |-> 1]

\* the UPDATE branch overwriting the turn list instead of appending to it
UpdatedRow_replace(row, message) ==
    [row EXCEPT !.conversation_context = << message >>,
                !.total_interactions = @ + 1]

\* the UPDATE branch putting the new turn in front of the list
UpdatedRow_prepend(row, message) ==
    [row EXCEPT !.conversation_context = << message >> \o @,
                !.total_interactions = @ + 1]

\* the row written by the UPDATE branch
UpdatedRow(row, message) ==
    [row EXCEPT !.conversation_context = Append(@, message),
                !.total_interactions = @ + 1]

\* the write step on a table without UNIQUE(ip_address, session_fingerprint):
\* the INSERT adds its row whatever rows the identity has
GwStoreWrite_noUnique(c) ==
    LET r == req[c]
        k == Identity(c)
    IN
    /\ r.phase = "selected"
    /\ IF r.memory_id = 0
         THEN /\ db' = [db EXCEPT ![k] = Append(@, InsertedRow(nextId, r.message))]
              /\ nextId' = nextId + 1
         ELSE /\ db' = IF db[k] # Null /\ db[k][1].id = r.memory_id
                         THEN [db EXCEPT ![k] = Some(UpdatedRow(db[k][1], r.message))]
                         ELSE db
              /\ UNCHANGED nextId
    /\ req' = [req EXCEPT ![c] = Replied(Answer(TRUE, Null))]
    /\ acked' = IF r.cleared THEN acked
                ELSE [acked EXCEPT ![k] = @ \cup {r.message}]
    /\ fresh' = [fresh EXCEPT ![k] = FALSE]
    /\ UNCHANGED << serviceVars, stores, lastRetrieve, pageVars >>

\* update_conversation_memory, IF memory_id IS NULL THEN INSERT ELSE UPDATE,
\* and the answer of the edge function.  The INSERT violates
\* UNIQUE(ip_address, session_fingerprint) when a row has appeared since the
\* SELECT; the UPDATE ... WHERE id = memory_id changes no row when the row
\* has been deleted since, and the function still returns memory_id.
GwStoreWrite(c) ==
    LET r == req[c]
        k == Identity(c)
    IN
    /\ r.phase = "selected"
    /\ IF r.memory_id = 0
         THEN IF db[k] = Null
                THEN /\ db' = [db EXCEPT ![k] = Some(InsertedRow(nextId, r.message))]
                     /\ nextId' = nextId + 1
                     /\ req' = [req EXCEPT ![c] =
                                  Replied(Answer(TRUE, Null))]
                     /\ acked' = IF r.cleared THEN acked
                                 ELSE [acked EXCEPT ![k] = @ \cup {r.message}]
                ELSE /\ req' = [req EXCEPT ![c] = Replied(Answer(FALSE, Null))]
                     /\ UNCHANGED << db, nextId, acked >>
         ELSE /\ db' = IF db[k] # Null /\ db[k][1].id = r.memory_id
                         THEN [db EXCEPT ![k] = Some(UpdatedRow(db[k][1], r.message))]
                         ELSE db
              /\ req' = [req EXCEPT ![c] =
                           Replied(Answer(TRUE, Null))]
              /\ acked' = IF r.cleared THEN acked
                          ELSE [acked EXCEPT ![k] = @ \cup {r.message}]
              /\ UNCHANGED nextId
    /\ fresh' = [fresh EXCEPT ![Identity(c)] = FALSE]
    /\ UNCHANGED << serviceVars, stores, lastRetrieve, pageVars >>

\* case 'retrieve': select('*').eq(...).single(); no row (PGRST116) is
\* answered with memory: null
GwRetrieve(c) ==
    /\ req[c].phase = "sent"
    /\ req[c].action = "retrieve"
    /\ req' = [req EXCEPT ![c] =
                 Replied(Answer(TRUE, db[Identity(c)]))]
    /\ lastRetrieve' = Some([identity |-> Identity(c), success |-> TRUE,
                              memory |-> db[Identity(c)],
                              acked |-> acked[Identity(c)],
                              fresh |-> fresh[Identity(c)]])
    /\ UNCHANGED << serviceVars, db, nextId, stores, acked, fresh, pageVars >>

\* the clear answering success without deleting the row
GwClear_noDelete(c) ==
    LET k == Identity(c) IN
    /\ req[c].phase = "sent"
    /\ req[c].action = "clear"
    /\ req' = [req EXCEPT ![c] = Replied(Answer(TRUE, Null))]
    /\ acked' = [acked EXCEPT ![k] = {}]
    /\ fresh' = [fresh EXCEPT ![k] = TRUE]
    /\ UNCHANGED << serviceVars, db, nextId, stores, lastRetrieve, pageVars >>

\* case 'clear': clear_conversation_memory, DELETE ... RETURN FOUND.  A store
\* of the same identity that has read its memory_id and not yet written is
\* marked: the clear has taken effect in between its two statements.
GwClear(c) ==
    LET k == Identity(c) IN
    /\ req[c].phase = "sent"
    /\ req[c].action = "clear"
    /\ db' = [db EXCEPT ![k] = Null]
    /\ req' = [x \in Callers |->
                 IF x = c
                   THEN Replied(Answer(TRUE, Null))
                 ELSE IF Identity(x) = k /\ req[x].phase = "selected"
                   THEN [req[x] EXCEPT !.cleared = TRUE]
                 ELSE req[x]]
    /\ acked' = [acked EXCEPT ![k] = {}]
    /\ fresh' = [fresh EXCEPT ![k] = TRUE]
    /\ UNCHANGED << serviceVars, nextId, stores, lastRetrieve, pageVars >>

\* the edge function's catch: any error thrown while serving the request
\* (storeError, retrieveError, clearError) is answered 500, success: false
GwError(c) ==
    /\ req[c].phase \in {"sent", "selected"}
    /\ req' = [req EXCEPT ![c] = Replied(Answer(FALSE, Null))]
    /\ UNCHANGED << serviceVars, db, nextId, stores, acked, lastRetrieve, fresh,
                    pageVars >>

\* the fetch is rejected (network failure) before the request is served
NetFail(c) ==
    /\ req[c].phase = "sent"
    /\ req' = [req EXCEPT ![c] = Replied(Rejected)]
    /\ UNCHANGED << serviceVars, db, nextId, stores, acked, lastRetrieve, fresh,
                    pageVars >>

\* one step of the gateway or of the network on a store or retrieve request
\* of caller c
StoreOrRetrieve(c) ==
    \/ GwStoreSelect(c)
    \/ GwStoreWrite(c)
    \/ GwRetrieve(c)
    \/ GwError(c)
    \/ NetFail(c)

\* one step of the gateway or of the network on the request of caller c
Gateway(c) ==
    \/ StoreOrRetrieve(c)
    \/ GwClear(c)

----------------------------------------------------------------------------
(* Inputs of the dispatcher and answers of its environment *)

\* "hello"
t_hello ==
    <<"h","e","l","l","o">>

\* "emergency treasury"
t_emergency_treasury ==
    <<"e","m","e","r","g","e","n","c","y"," ","t","r","e","a","s","u","r","y">>

\* "URGENT vote"
t_urgent_vote ==
    <<"U","R","G","E","N","T"," ","v","o","t","e">>

\* "treasury advice"
t_treasury_advice ==
    <<"t","r","e","a","s","u","r","y"," ","a","d","v","i","c","e">>

\* "this"
t_this ==
    <<"t","h","i","s">>

\* "weather"
t_weather ==
    <<"w","e","a","t","h","e","r">>

\* "security advice"
t_security_advice ==
    <<"s","e","c","u","r","i","t","y"," ","a","d","v","i","c","e">>

\* the user texts sent in the dispatch specification
Inputs ==
    {t_hello, t_emergency_treasury, t_urgent_vote, t_treasury_advice,
     t_security_advice, t_this, t_weather}

\* "I recommend a vote"
r_recommend_vote ==
    <<"I"," ","r","e","c","o","m","m","e","n","d"," ","a"," ","v","o","t","e">>

\* "critical alert"
r_critical_alert ==
    <<"c","r","i","t","i","c","a","l"," ","a","l","e","r","t">>

\* the texts the AI backend answers with
Replies ==
    {r_recommend_vote, r_critical_alert}

\* what the fetch of /api/hashrate settles with: << >> for a failure, a
\* timeout or a non-OK status, <<data>> for an OK answer with its JSON body
HashrateAnswers ==
    {Null,
     Some([hashrate |-> "3.1 GH/s", difficulty |-> "", security_score |-> 80,
           activity_level |-> ""])}

\* "EMERGENCY"
t_EMERGENCY ==
    <<"E","M","E","R","G","E","N","C","Y">>

\* "Fund"
t_Fund ==
    <<"F","u","n","d">>

\* the words the generated texts are made of: every keyword of
\* analyzeDecisionType and of getSimulatedResponse, two of them in upper
\* case, a word that holds "hi" inside ("this") and one that matches nothing
Vocabulary ==
    {w_emergency, w_urgent, w_critical, w_governance, w_proposal, w_vote,
     w_treasury, w_fund, w_investment, w_recommend, w_suggest, w_advice,
     w_security, w_audit, w_hello, w_hi, t_this, t_weather, t_EMERGENCY, t_Fund}

\* the texts of one to n words of the vocabulary, joined by single spaces
RECURSIVE TextsUpTo(_)
TextsUpTo(n) ==
    IF n <= 1 THEN Vocabulary
    ELSE LET shorter == TextsUpTo(n - 1) IN
         shorter \cup {t \o <<" ">> \o w : t \in shorter, w \in Vocabulary}

\* the inputs of the scripted dispatch
ClassifyInputs ==
    TextsUpTo(MaxWords)
----------------------------------------------------------------------------
(* ElizaApiService: construction-time tasks *)

\* this.videoModel is set: API key present and videoAvatarEnabled
videoModel ==
    model /\ config.videoAvatarEnabled

\* the entries of this.systemEndpoints
NumEndpoints == 4

Endpoints == 1..NumEndpoints

\* the avatarState literal of the field initialiser
InitialAvatar ==
    [isGenerating |-> FALSE, currentVideoUrl |-> "", emotion |-> "neutral",
     isReady |-> FALSE]

\* initializeVideoAvatar, after its 800 ms timer: this.avatarState is
\* replaced by a new object
AvatarInitDone ==
    /\ avatarInit = "pending"
    /\ avatarObjs' = Append(avatarObjs,
          [isGenerating |-> FALSE,
           currentVideoUrl |-> "https://example.com/eliza-avatar.mp4",
           emotion |-> "neutral", isReady |-> TRUE])
    /\ avatarState' = Len(avatarObjs) + 1
    /\ avatarInit' = "done"
    /\ UNCHANGED << model, config, conversationId, conversationMemory,
                    systemEndpoints, checking, send, promise, turnsLeft, scriptText, cycle, aiCalls,
                    req, tableVars, pageVars >>

\* initializeConversationMemory, after its fetch has settled: the snapshot
\* is the retrieved record, or null when there is none or the call failed
InitMemorySettled ==
    /\ req["init"].phase = "replied"
    /\ LET result == req["init"].result IN
       conversationMemory' =
           IF ~result.threw /\ result.success /\ result.memory # Null
             THEN result.memory
             ELSE Null
    /\ req' = [req EXCEPT !["init"] = NoRequest]
    /\ UNCHANGED << model, config, conversationId, systemEndpoints, avatarObjs,
                    avatarState, avatarInit, checking, send, promise, turnsLeft,
                    scriptText, cycle, aiCalls, tableVars, pageVars >>

----------------------------------------------------------------------------
(* ElizaApiService.sendMessage *)

Idle ==
    [pc |-> "idle"]

\* what storeInMemory saw of its call; it logs and returns in every case
StoreOutcome(result) ==
    IF result.threw THEN "threw" ELSE IF result.success THEN "ok" ELSE "fail"

\* conversationContext.slice(-10)
LastTen(context) ==
    SubSeq(context, IF Len(context) > 10 THEN Len(context) - 9 ELSE 1, Len(context))

\* getConversationContext(): this.conversationMemory?.conversation_context || []
getConversationContext ==
    IF conversationMemory = Null THEN << >>
    ELSE conversationMemory[1].conversation_context

\* the catch block passing the error of the AI call on instead of answering
ResolveFallback_rethrow(input, ai, storeUser) ==
    [input |-> input, ai |-> ai, storeUser |-> storeUser, storeReply |-> "none",
     context |-> << >>,
     outcome |-> IF ai = "threw" THEN "rejected" ELSE "resolved",
     response |-> IF ai = "threw" THEN [error |-> "api_error"]
                  ELSE getSimulatedResponse(input)]

\* the catch block dressing the fallback as an AI-backed response
ResolveFallback_partial(input, ai, storeUser) ==
    [input |-> input, ai |-> ai, storeUser |-> storeUser, storeReply |-> "none",
     context |-> << >>, outcome |-> "resolved",
     response |-> IF ai = "threw"
                    THEN [getSimulatedResponse(input) EXCEPT !.confidence_score = 95]
                    ELSE getSimulatedResponse(input)]

\* a settled call of sendMessage that took the fallback: the return of line
\* 266 (no model) and the catch block of lines 267-271 (ai = "threw")
ResolveFallback(input, ai, storeUser) ==
    [input |-> input, ai |-> ai, storeUser |-> storeUser, storeReply |-> "none",
     context |-> << >>, outcome |-> "resolved",
     response |-> getSimulatedResponse(input)]

\* sendMessage, line 202: await this.storeInMemory({...message, sender: 'user'})
SendMessage(text) ==
    /\ send.pc = "idle"
    /\ turnsLeft > 0
    /\ req["send"].phase = "none"
    /\ turnsLeft' = turnsLeft - 1
    /\ promise' = Null
    /\ aiCalls' = 0
    /\ send' = [pc |-> "storeUser", message |-> text]
    /\ req' = [req EXCEPT !["send"] =
                 Request("store", [sender |-> "user", content |-> text])]
    /\ UNCHANGED << model, config, conversationId, conversationMemory,
                    systemEndpoints, avatarObjs, avatarState, avatarInit, checking,
                    scriptText, cycle, tableVars, pageVars >>

\* lines 205-229 and 266: the store of the user message has settled; without
\* a model the fallback is returned, with one the prompt is built from the
\* snapshot and chat.sendMessage is awaited
AfterStoreUser ==
    /\ send.pc = "storeUser"
    /\ req["send"].phase = "replied"
    /\ req' = [req EXCEPT !["send"] = NoRequest]
    /\ LET seen == StoreOutcome(req["send"].result) IN
       IF model
         THEN /\ send' = [pc |-> "awaitAI", message |-> send.message,
                          storeUser |-> seen,
                          context |-> LastTen(getConversationContext)]
              /\ aiCalls' = aiCalls + 1
              /\ UNCHANGED promise
         ELSE /\ send' = Idle
              /\ promise' = Some(ResolveFallback(send.message, "none", seen))
              /\ UNCHANGED aiCalls
    /\ UNCHANGED << model, config, conversationId, conversationMemory,
                    systemEndpoints, avatarObjs, avatarState, avatarInit, checking,
                    turnsLeft, scriptText, cycle, tableVars, pageVars >>

\* lines 229-239: the AI call answered with content; the reply is stored
AIResponds(content) ==
    /\ send.pc = "awaitAI"
    /\ send' = [pc |-> "storeReply", message |-> send.message,
                storeUser |-> send.storeUser, context |-> send.context,
                content |-> content]
    /\ req' = [req EXCEPT !["send"] =
                 Request("store", [sender |-> "eliza", content |-> content])]
    /\ UNCHANGED << model, config, conversationId, conversationMemory,
                    systemEndpoints, avatarObjs, avatarState, avatarInit, checking,
                    promise, turnsLeft, scriptText, cycle, aiCalls, tableVars,
                    pageVars >>

\* this.config.maxRetries as the constructor defaults it; sendMessage never
\* reads it
maxRetries == 3

\* the catch block calling the AI again until maxRetries calls have failed
AIThrows_retry ==
    /\ send.pc = "awaitAI"
    /\ IF aiCalls < maxRetries
         THEN /\ aiCalls' = aiCalls + 1
              /\ UNCHANGED << send, promise >>
         ELSE /\ send' = Idle
              /\ promise' = Some(ResolveFallback(send.message, "threw", send.storeUser))
              /\ UNCHANGED aiCalls
    /\ UNCHANGED << model, config, conversationId, conversationMemory,
                    systemEndpoints, avatarObjs, avatarState, avatarInit, checking,
                    turnsLeft, scriptText, cycle, req, tableVars, pageVars >>

\* lines 229-231 and 267-271: chat.sendMessage, result.response or
\* response.text() threw; the catch block returns the fallback
AIThrows ==
    /\ send.pc = "awaitAI"
    /\ send' = Idle
    /\ promise' = Some(ResolveFallback(send.message, "threw", send.storeUser))
    /\ UNCHANGED << model, config, conversationId, conversationMemory,
                    systemEndpoints, avatarObjs, avatarState, avatarInit, checking,
                    turnsLeft, scriptText, cycle, aiCalls, req, tableVars,
                    pageVars >>

\* the URL of the clip generated for an emotion, `/api/generated-avatar/${emotion}.mp4`
GeneratedAvatarUrl(emotion) ==
    CASE emotion = "happy" -> "/api/generated-avatar/happy.mp4"
      [] emotion = "thinking" -> "/api/generated-avatar/thinking.mp4"
      [] emotion = "concerned" -> "/api/generated-avatar/concerned.mp4"
      [] emotion = "excited" -> "/api/generated-avatar/excited.mp4"
      [] OTHER -> "/api/generated-avatar/neutral.mp4"

\* updateAvatarState returns at once: avatar disabled, no video model, or
\* the emotion is already the current one
AvatarUnchanged(emotion) ==
    \/ ~config.videoAvatarEnabled
    \/ ~videoModel
    \/ avatarObjs[avatarState].emotion = emotion

\* the part of getRealTimeData before its await: the share of endpoints
\* that are online, in percent
EcosystemHealth ==
    (Cardinality({e \in Endpoints : systemEndpoints[e].status = "online"}) * 100)
        \div NumEndpoints

\* the locals of sendMessage once the object literal of the return statement
\* has read this.avatarState and this.systemEndpoints and getRealTimeData
\* awaits getHashrateData
AwaitRealTime(s, storeReply, avatarRef) ==
    [pc |-> "realtime", message |-> s.message, storeUser |-> s.storeUser,
     context |-> s.context, content |-> s.content, storeReply |-> storeReply,
     avatar_state |-> avatarRef, ecosystemHealth |-> EcosystemHealth]

\* a failed store of the reply reaching the catch block of sendMessage
AfterStoreReply_propagates ==
    /\ send.pc = "storeReply"
    /\ req["send"].phase = "replied"
    /\ req' = [req EXCEPT !["send"] = NoRequest]
    /\ LET seen == StoreOutcome(req["send"].result) IN
       IF seen = "ok"
         THEN /\ send' = AwaitRealTime(send, seen, avatarState)
              /\ UNCHANGED promise
         ELSE /\ send' = Idle
              /\ promise' = Some(ResolveFallback(send.message, "threw", send.storeUser))
    /\ UNCHANGED << model, config, conversationId, conversationMemory,
                    systemEndpoints, avatarObjs, avatarState, avatarInit,
                    checking, turnsLeft, scriptText, cycle, aiCalls, tableVars,
                    pageVars >>

\* lines 241-247 (and 249-261 when updateAvatarState returns at once): the
\* store of the reply has settled; the emotion is derived and the avatar
\* update is started
AfterStoreReply ==
    /\ send.pc = "storeReply"
    /\ req["send"].phase = "replied"
    /\ req' = [req EXCEPT !["send"] = NoRequest]
    /\ LET seen == StoreOutcome(req["send"].result)
           decisionType == analyzeDecisionType(send.message, send.content)
           avatarEmotion == determineAvatarEmotion(send.content, decisionType)
       IN
       IF AvatarUnchanged(avatarEmotion)
         THEN /\ UNCHANGED << avatarObjs, avatarState >>
              /\ send' = AwaitRealTime(send, seen, avatarState)
         ELSE /\ avatarObjs' = [avatarObjs EXCEPT ![avatarState].isGenerating = TRUE]
              /\ UNCHANGED avatarState
              /\ send' = [pc |-> "avatar", message |-> send.message,
                          storeUser |-> send.storeUser, context |-> send.context,
                          content |-> send.content, storeReply |-> seen,
                          emotion |-> avatarEmotion]
    /\ UNCHANGED << model, config, conversationId, conversationMemory,
                    systemEndpoints, avatarInit, checking, promise, turnsLeft,
                    scriptText, cycle, aiCalls, tableVars, pageVars >>

\* updateAvatarState after its 1500 ms timer: this.avatarState is replaced
\* by a new object; sendMessage goes on to the return statement
AvatarUpdated ==
    /\ send.pc = "avatar"
    /\ avatarObjs' = Append(avatarObjs,
          [isGenerating |-> FALSE,
           currentVideoUrl |-> GeneratedAvatarUrl(send.emotion),
           emotion |-> send.emotion, isReady |-> TRUE])
    /\ avatarState' = Len(avatarObjs) + 1
    /\ send' = AwaitRealTime(send, send.storeReply, Len(avatarObjs) + 1)
    /\ UNCHANGED << model, config, conversationId, conversationMemory,
                    systemEndpoints, avatarInit, checking, promise, turnsLeft,
                    scriptText, cycle, aiCalls, req, tableVars, pageVars >>

\* the simulated data getHashrateData falls back on
DefaultHashrate ==
    [current_hashrate |-> "2.8 GH/s", difficulty |-> "295.2B",
     network_security |-> 92, mining_activity |-> "High"]

\* getHashrateData: answer is << >> when the fetch failed, timed out or was
\* not OK, and <<data>> otherwise; a missing or falsy field of data ("" or 0
\* here) takes the default
getHashrateData(answer) ==
    IF answer = Null THEN DefaultHashrate
    ELSE LET data == answer[1] IN
         [current_hashrate |-> IF data.hashrate = "" THEN "2.8 GH/s" ELSE data.hashrate,
          difficulty |-> IF data.difficulty = "" THEN "295.2B" ELSE data.difficulty,
          network_security |-> IF data.security_score = 0 THEN 92
                               ELSE data.security_score,
          mining_activity |-> IF data.activity_level = "" THEN "High"
                              ELSE data.activity_level]

\* sum of the responseTime fields of the endpoint records
RECURSIVE SumResponseTime(_)
SumResponseTime(n) ==
    IF n = 0 THEN 0 ELSE systemEndpoints[n].responseTime + SumResponseTime(n - 1)

\* Math.min(100, Math.round(baseActivity + hashrateBonus)) with
\* baseActivity = Math.max(20, 100 - avgResponseTime / 10) and avgResponseTime
\* the mean over the endpoints; computed in units of 1/(10 * NumEndpoints)
DaoActivity(hashrateData) ==
    LET unit == 10 * NumEndpoints
        base == IF 100 * unit - SumResponseTime(NumEndpoints) > 20 * unit
                  THEN 100 * unit - SumResponseTime(NumEndpoints)
                  ELSE 20 * unit
        bonus == IF hashrateData.network_security > 90 THEN 5 ELSE 0
        rounded == (2 * (base + bonus * unit) + unit) \div (2 * unit)
    IN  IF rounded > 100 THEN 100 ELSE rounded

\* the rest of getRealTimeData, after getHashrateData has returned
getRealTimeData(ecosystemHealth, hashrateData) ==
    [xmrt_ecosystem_health |-> ecosystemHealth,
     dao_activity |-> DaoActivity(hashrateData),
     treasury_value |-> "$2.4M",
     active_governance_proposals |-> 3,
     network_hashrate |-> hashrateData]

\* the AI-backed response with the confidence written as a percentage
AIResponse_percent(s, realTimeData) ==
    [content |-> s.content,
     confidence_score |-> 9500,
     decision_type |-> analyzeDecisionType(s.message, s.content),
     actions_suggested |-> extractActions(s.content),
     system_status |->
         [uptime |-> 997, queue_size |-> 3,
          active_agents |-> <<"governance-monitor", "treasury-optimizer",
                              "security-scanner", "community-analyzer">>],
     avatar_state |-> s.avatar_state,
     system_endpoints |-> "this.systemEndpoints",
     real_time_data |-> realTimeData]

\* the object returned on the AI path, lines 249-262; avatar_state holds the
\* object this.avatarState referred to and system_endpoints the array itself
AIResponse(s, realTimeData) ==
    [content |-> s.content,
     confidence_score |-> 95,
     decision_type |-> analyzeDecisionType(s.message, s.content),
     actions_suggested |-> extractActions(s.content),
     system_status |->
         [uptime |-> 997, queue_size |-> 3,
          active_agents |-> <<"governance-monitor", "treasury-optimizer",
                              "security-scanner", "community-analyzer">>],
     avatar_state |-> s.avatar_state,
     system_endpoints |-> "this.systemEndpoints",
     real_time_data |-> realTimeData]

\* a settled call of sendMessage that returned the AI-backed response;
\* returned is what the two references of the response showed at that moment
ResolveAI(s, realTimeData) ==
    [input |-> s.message, ai |-> "answered", storeUser |-> s.storeUser,
     storeReply |-> s.storeReply, context |-> s.context, outcome |-> "resolved",
     response |-> AIResponse(s, realTimeData),
     returned |-> [system_endpoints |-> systemEndpoints,
                   avatar_state |-> avatarObjs[s.avatar_state]]]

\* lines 249-262: getHashrateData has settled, getRealTimeData returns and
\* sendMessage resolves with the AI-backed response
ReturnAIResponse(answer) ==
    /\ send.pc = "realtime"
    /\ promise' = Some(ResolveAI(send, getRealTimeData(send.ecosystemHealth, getHashrateData(answer))))
    /\ send' = Idle
    /\ UNCHANGED << model, config, conversationId, conversationMemory,
                    systemEndpoints, avatarObjs, avatarState, avatarInit, checking,
                    turnsLeft, scriptText, cycle, aiCalls, req, tableVars,
                    pageVars >>

----------------------------------------------------------------------------
(* ElizaApiService.initializeConversation / clearConversation *)

\* the values `conversation_${Date.now()}_${random}` can take
ConversationIds == {"conversation_1", "conversation_2"}

\* initializeConversation: a fresh id is stored
InitializeConversation(id) ==
    /\ conversationId # Some(id)
    /\ conversationId' = Some(id)
    /\ UNCHANGED << model, config, conversationMemory, systemEndpoints, avatarObjs,
                    avatarState, avatarInit, checking, send, promise, turnsLeft,
                    scriptText, cycle, aiCalls, req, tableVars, pageVars >>

\* clearConversation, lines 305-308 and 362-371: the id is dropped and the
\* clear request is issued
ClearConversation ==
    /\ req["clear"].phase = "none"
    /\ conversationId' = Null
    /\ req' = [req EXCEPT !["clear"] = Request("clear", Null)]
    /\ UNCHANGED << model, config, conversationMemory, systemEndpoints, avatarObjs,
                    avatarState, avatarInit, checking, send, promise, turnsLeft,
                    scriptText, cycle, aiCalls, tableVars, pageVars >>

\* clearConversationMemory, lines 373-380: the snapshot is dropped only when
\* the answer says success; a failure is logged and swallowed
ClearSettled ==
    /\ req["clear"].phase = "replied"
    /\ conversationMemory' =
           IF ~req["clear"].result.threw /\ req["clear"].result.success
             THEN Null ELSE conversationMemory
    /\ req' = [req EXCEPT !["clear"] = NoRequest]
    /\ UNCHANGED << model, config, conversationId, systemEndpoints, avatarObjs,
                    avatarState, avatarInit, checking, send, promise, turnsLeft,
                    scriptText, cycle, aiCalls, tableVars, pageVars >>


----------------------------------------------------------------------------
(* ElizaApiService.checkSystemEndpoints: one cycle checks every endpoint     *)
(* concurrently.  checking[e] is the position of the check of endpoint e:    *)
(* "fetch" (awaiting the fetch), "json_ok" / "json_notok" (record written,   *)
(* awaiting response.json()), "done_ok" / "done_notok" / "done_threw".  A    *)
(* cycle starts when the previous one has settled: every check is aborted    *)
(* after 10 s and the timer fires every 30 s.                                *)

\* Date.now() - startTime as a check can measure it, in ms
ResponseTimes == {120}

\* the status a check records for the outcome of its fetch
StatusOf(position) ==
    CASE position \in {"json_ok", "done_ok"} -> "online"
      [] position \in {"json_notok", "done_notok"} -> "degraded"
      [] position = "done_threw" -> "offline"

CheckSettled(e) ==
    checking[e] \in {"done_ok", "done_notok", "done_threw"}

\* a failing check recording nothing for itself and marking every endpoint
\* still waiting for its answer as offline
EndpointFailed_failsAll(e, responseTime) ==
    /\ checking[e] = "fetch"
    /\ systemEndpoints' =
          [x \in Endpoints |->
             IF checking[x] = "fetch"
               THEN [systemEndpoints[x] EXCEPT !.status = "offline"]
               ELSE systemEndpoints[x]]
    /\ checking' = [x \in Endpoints |->
                      IF checking[x] = "fetch" THEN "done_threw" ELSE checking[x]]
    /\ UNCHANGED << model, config, conversationId, conversationMemory, avatarObjs,
                    avatarState, avatarInit, cycle, send, promise, turnsLeft,
                    aiCalls, scriptText, req, tableVars, pageVars >>

\* lines 577-590: the fetch of endpoint e answered; status, responseTime and
\* lastChecked are written and response.json() is awaited
EndpointAnswered(e, ok, responseTime) ==
    /\ checking[e] = "fetch"
    /\ systemEndpoints' =
          [systemEndpoints EXCEPT ![e] =
             [@ EXCEPT !.status = IF ok THEN "online" ELSE "degraded",
                       !.responseTime = responseTime,
                       !.lastChecked = cycle]]
    /\ checking' = [checking EXCEPT ![e] = IF ok THEN "json_ok" ELSE "json_notok"]
    /\ UNCHANGED << model, config, conversationId, conversationMemory, avatarObjs,
                    avatarState, avatarInit, cycle, send, promise, turnsLeft,
                    aiCalls, scriptText, req, tableVars, pageVars >>

\* the inner catch leaving the payload of the record as it was
EndpointBodyRead_keepsData(e, isJson) ==
    /\ checking[e] \in {"json_ok", "json_notok"}
    /\ systemEndpoints' =
          [systemEndpoints EXCEPT ![e].data = IF isJson THEN "json" ELSE @]
    /\ checking' = [checking EXCEPT ![e] =
                      IF @ = "json_ok" THEN "done_ok" ELSE "done_notok"]
    /\ UNCHANGED << model, config, conversationId, conversationMemory, avatarObjs,
                    avatarState, avatarInit, cycle, send, promise, turnsLeft,
                    aiCalls, scriptText, req, tableVars, pageVars >>

\* lines 592-599: response.json() settled; data is the parsed body, or
\* {status: 'accessible'} when response.json() rejected (the body is not
\* JSON, or reading it was cut short)
EndpointBodyRead(e, isJson) ==
    /\ checking[e] \in {"json_ok", "json_notok"}
    /\ systemEndpoints' =
          [systemEndpoints EXCEPT ![e].data = IF isJson THEN "json" ELSE "accessible"]
    /\ checking' = [checking EXCEPT ![e] =
                      IF @ = "json_ok" THEN "done_ok" ELSE "done_notok"]
    /\ UNCHANGED << model, config, conversationId, conversationMemory, avatarObjs,
                    avatarState, avatarInit, cycle, send, promise, turnsLeft,
                    aiCalls, scriptText, req, tableVars, pageVars >>

\* lines 601-606: the fetch of endpoint e threw (network error, CORS, abort
\* after 10 s); the catch records offline
EndpointFailed(e, responseTime) ==
    /\ checking[e] = "fetch"
    /\ systemEndpoints' =
          [systemEndpoints EXCEPT ![e] =
             [@ EXCEPT !.status = "offline",
                       !.responseTime = responseTime,
                       !.lastChecked = cycle,
                       !.data = "error"]]
    /\ checking' = [checking EXCEPT ![e] = "done_threw"]
    /\ UNCHANGED << model, config, conversationId, conversationMemory, avatarObjs,
                    avatarState, avatarInit, cycle, send, promise, turnsLeft,
                    aiCalls, scriptText, req, tableVars, pageVars >>

\* lines 561-563 and 711: the timer fires, or getSystemReport is called,
\* and checkSystemEndpoints starts the fetch of every endpoint
StartCycle ==
    /\ cycle < MaxCycles
    /\ \A e \in Endpoints : CheckSettled(e)
    /\ cycle' = cycle + 1
    /\ checking' = [e \in Endpoints |-> "fetch"]
    /\ UNCHANGED << model, config, conversationId, conversationMemory,
                    systemEndpoints, avatarObjs, avatarState, avatarInit, send,
                    promise, turnsLeft, aiCalls, scriptText, req, tableVars,
                    pageVars >>

\* one step of the check of some endpoint
Monitor ==
    \E e \in Endpoints :
        \/ \E ok \in BOOLEAN, rt \in ResponseTimes : EndpointAnswered(e, ok, rt)
        \/ \E isJson \in BOOLEAN : EndpointBodyRead(e, isJson)
        \/ \E rt \in ResponseTimes : EndpointFailed(e, rt)

----------------------------------------------------------------------------
(* ElizaApiService.getSystemReport: runs a cycle of its own, which writes    *)
(* the same endpoint records as a cycle of the timer that is in flight, and  *)
(* computes its result when all checks of its own cycle have settled.        *)

\* no call of getSystemReport has been made
NoReport ==
    [pc |-> "idle", checking |-> [e \in Endpoints |-> "none"], result |-> Null]

\* line 711 and 573-575: getSystemReport calls checkSystemEndpoints, whose
\* map starts the fetch of every endpoint before anything is awaited
GetSystemReport ==
    /\ report.pc = "idle"
    /\ report' = [report EXCEPT !.pc = "checking",
                                !.checking = [e \in Endpoints |-> "fetch"]]
    /\ cycle' = cycle + 1
    /\ UNCHANGED << model, config, conversationId, conversationMemory,
                    systemEndpoints, avatarObjs, avatarState, avatarInit,
                    checking, send, promise, turnsLeft, aiCalls, scriptText,
                    req, tableVars,
                    ui, tts >>

\* lines 577-590, in the cycle of getSystemReport
ReportEndpointAnswered(e, ok, responseTime) ==
    /\ report.checking[e] = "fetch"
    /\ systemEndpoints' =
          [systemEndpoints EXCEPT ![e] =
             [@ EXCEPT !.status = IF ok THEN "online" ELSE "degraded",
                       !.responseTime = responseTime,
                       !.lastChecked = cycle]]
    /\ report' = [report EXCEPT !.checking[e] =
                                   IF ok THEN "json_ok" ELSE "json_notok"]
    /\ UNCHANGED << model, config, conversationId, conversationMemory, avatarObjs,
                    avatarState, avatarInit, checking, cycle, send, promise,
                    turnsLeft, aiCalls, scriptText, req, tableVars,
                    ui, tts >>

\* lines 592-599, in the cycle of getSystemReport
ReportEndpointBodyRead(e, isJson) ==
    /\ report.checking[e] \in {"json_ok", "json_notok"}
    /\ systemEndpoints' =
          [systemEndpoints EXCEPT ![e].data = IF isJson THEN "json" ELSE "accessible"]
    /\ report' = [report EXCEPT !.checking[e] =
                                   IF @ = "json_ok" THEN "done_ok" ELSE "done_notok"]
    /\ UNCHANGED << model, config, conversationId, conversationMemory, avatarObjs,
                    avatarState, avatarInit, checking, cycle, send, promise,
                    turnsLeft, aiCalls, scriptText, req, tableVars,
                    ui, tts >>

\* lines 601-606, in the cycle of getSystemReport
ReportEndpointFailed(e, responseTime) ==
    /\ report.checking[e] = "fetch"
    /\ systemEndpoints' =
          [systemEndpoints EXCEPT ![e] =
             [@ EXCEPT !.status = "offline",
                       !.responseTime = responseTime,
                       !.lastChecked = cycle,
                       !.data = "error"]]
    /\ report' = [report EXCEPT !.checking[e] = "done_threw"]
    /\ UNCHANGED << model, config, conversationId, conversationMemory, avatarObjs,
                    avatarState, avatarInit, checking, cycle, send, promise,
                    turnsLeft, aiCalls, scriptText, req, tableVars,
                    ui, tts >>

\* lines 713: the endpoints whose record says online
OnlineCount(endpoints) ==
    Cardinality({e \in Endpoints : endpoints[e].status = "online"})

\* lines 718-724: the recommendations about the first n endpoints, in the
\* order of the array
RECURSIVE EndpointRecommendations(_, _)
EndpointRecommendations(endpoints, n) ==
    IF n = 0 THEN << >>
    ELSE EndpointRecommendations(endpoints, n - 1) \o
         ( IF endpoints[n].status = "offline"
             THEN << [endpoint |-> n, advice |-> "offline"] >>
           ELSE IF endpoints[n].responseTime > 5000
             THEN << [endpoint |-> n, advice |-> "high latency"] >>
           ELSE << >> )

\* lines 713-732: the report computed from the records as they are
SystemReport(endpoints) ==
    LET overallHealth == (OnlineCount(endpoints) * 100) \div NumEndpoints
    IN  [endpoints |-> endpoints,
         overall_health |-> overallHealth,
         recommendations |->
             EndpointRecommendations(endpoints, NumEndpoints) \o
             ( IF overallHealth < 80
                 THEN << [endpoint |-> 0, advice |-> "health below optimal"] >>
                 ELSE << >> )]

\* lines 609 and 713-732: Promise.allSettled resolves when every check of
\* the report's cycle has settled; the report is computed without a further
\* await
ReportReturns ==
    /\ report.pc = "checking"
    /\ \A e \in Endpoints :
           report.checking[e] \in {"done_ok", "done_notok", "done_threw"}
    /\ report' = [report EXCEPT !.pc = "returned",
                                !.result = Some(SystemReport(systemEndpoints))]
    /\ UNCHANGED << model, config, conversationId, conversationMemory,
                    systemEndpoints, avatarObjs, avatarState, avatarInit,
                    checking, cycle, send, promise, turnsLeft, aiCalls,
                    scriptText, req, tableVars,
                    ui, tts >>

----------------------------------------------------------------------------
(* ElizaChatBot (ChatBot.tsx): the handlers of the chat page.  A handler    *)
(* runs up to its first await in one step, together with the part of the    *)
(* service method it calls that runs before that method's first await; the  *)
(* continuation of an await whose promise has settled runs before the next  *)
(* event of the user is handled.                                            *)

Whitespace == {" ", "\t"}

\* String.prototype.trim
RECURSIVE TrimStart(_)
TrimStart(text) ==
    IF text # << >> /\ Head(text) \in Whitespace THEN TrimStart(Tail(text)) ELSE text

RECURSIVE TrimEnd(_)
TrimEnd(text) ==
    IF text # << >> /\ text[Len(text)] \in Whitespace
      THEN TrimEnd(SubSeq(text, 1, Len(text) - 1))
      ELSE text

Trim(text) ==
    TrimEnd(TrimStart(text))

\* what the user can have typed into the input: hello, blanks, nothing
PageInputs == {t_hello, << " ", "\t" >>, << >>}

\* the continuation of the sendMessage handler is due
ContinuationDue ==
    ui.pc = "awaitService" /\ promise # Null

\* the onChange of the input, which is disabled while isTyping (627-631)
UiType(text) ==
    /\ ~ui.isTyping
    /\ ~ContinuationDue
    /\ ui.inputValue # text
    /\ ui' = [ui EXCEPT !.inputValue = text]
    /\ UNCHANGED << serviceVars, req, tableVars, report, tts >>

\* the sendMessage handler dropping the guards of the controls
UiSendMessage_unguarded ==
    /\ Trim(ui.inputValue) # << >>
    /\ turnsLeft > 0
    /\ ui' = [ui EXCEPT !.messages = Append(@, [sender |-> "user", type |-> "text",
                                                content |-> ui.inputValue]),
                        !.isTyping = TRUE,
                        !.pc = "awaitService",
                        !.inFlight = @ + 1,
                        !.clearedDuringAI = FALSE]
    /\ turnsLeft' = turnsLeft - 1
    /\ promise' = Null
    /\ aiCalls' = 0
    /\ send' = [pc |-> "storeUser", message |-> ui.inputValue]
    /\ req' = [req EXCEPT !["send"] =
                 Request("store", [sender |-> "user", content |-> ui.inputValue])]
    /\ UNCHANGED << model, config, conversationId, conversationMemory,
                    systemEndpoints, avatarObjs, avatarState, avatarInit, checking,
                    scriptText, cycle, tableVars, report, tts >>

\* ChatBot.tsx 332-357 with ElizaApiService 199-202: the handler runs from a
\* click on the send button (disabled when the trimmed input is empty or
\* isTyping, 635) or from Enter in the input (disabled while isTyping, 631);
\* it returns at once on a blank input, else it logs the user message,
\* empties the input, sets isTyping and calls elizaService.sendMessage, which
\* starts the store of the user message
UiSendMessage ==
    /\ ~ui.isTyping
    /\ ~ContinuationDue
    /\ Trim(ui.inputValue) # << >>
    /\ turnsLeft > 0
    /\ ui' = [ui EXCEPT !.messages = Append(@, [sender |-> "user", type |-> "text",
                                                content |-> ui.inputValue]),
                        !.inputValue = << >>,
                        !.isTyping = TRUE,
                        !.pc = "awaitService",
                        !.inFlight = @ + 1,
                        !.clearedDuringAI = FALSE]
    /\ turnsLeft' = turnsLeft - 1
    /\ promise' = Null
    /\ aiCalls' = 0
    /\ send' = [pc |-> "storeUser", message |-> ui.inputValue]
    /\ req' = [req EXCEPT !["send"] =
                 Request("store", [sender |-> "user", content |-> ui.inputValue])]
    /\ UNCHANGED << model, config, conversationId, conversationMemory,
                    systemEndpoints, avatarObjs, avatarState, avatarInit, checking,
                    scriptText, cycle, tableVars, report, tts >>

\* ChatBot.tsx 372-397 and 406-408: the reply is logged, a toast is shown
\* for a confidence above 0.9, and the finally block resets isTyping
UiFinish(u, response) ==
    [u EXCEPT !.messages = Append(@, [sender |-> "eliza", type |-> "text",
                                     content |-> response.content]),
              !.toast = IF response.confidence_score > 90
                          THEN "Eliza Analysis Complete" ELSE @,
              !.isTyping = FALSE,
              !.pc = "idle",
              !.inFlight = @ - 1]

\* ChatBot.tsx 398-408: the catch block and the finally block
UiFail(u) ==
    [u EXCEPT !.toast = "Connection Error",
              !.isTyping = FALSE,
              !.pc = "idle",
              !.inFlight = @ - 1]

\* ChatBot.tsx 349-364: elizaService.sendMessage has settled; with audio on
\* the speech of the reply is requested and awaited (generateSpeech returns
\* null at once when the service is disabled or the text is blank)
UiResponseArrives ==
    /\ ContinuationDue
    /\ ui' = IF promise[1].outcome # "resolved" THEN UiFail(ui)
             ELSE IF /\ ui.audioEnabled
                     /\ tts.enabled
                     /\ Trim(promise[1].response.content) # << >>
               THEN [ui EXCEPT !.pc = "awaitTTS"]
             ELSE UiFinish(ui, promise[1].response)
    /\ UNCHANGED << serviceVars, req, tableVars, report, tts >>

\* ChatBot.tsx 363-370 with part_001 62-65: generateSpeech has settled; when
\* it returned a clip, speakText is called and not awaited: it requests the
\* speech again when the service is enabled
UiSpeechSettled(gotSpeech) ==
    /\ ui.pc = "awaitTTS"
    /\ ui' = UiFinish(ui, promise[1].response)
    /\ tts' = IF gotSpeech /\ tts.enabled
                THEN [tts EXCEPT !.clips = @ + 1,
                                 !.generating = @ \cup {tts.clips + 1}]
                ELSE tts
    /\ UNCHANGED << serviceVars, req, tableVars, report >>

\* ChatBot.tsx 428-430 with ElizaApiService 305-371: a click on the clear
\* button; the id is dropped and the clear request is issued
UiClearConversation ==
    /\ ui.clear = "idle"
    /\ ui.clearsLeft > 0
    /\ ~ContinuationDue
    /\ req["clear"].phase = "none"
    /\ ui' = [ui EXCEPT !.clear = "awaiting", !.clearsLeft = @ - 1,
                        !.clearInvokedAt = send.pc]
    /\ conversationId' = Null
    /\ req' = [req EXCEPT !["clear"] = Request("clear", Null)]
    /\ UNCHANGED << model, config, conversationMemory, systemEndpoints, avatarObjs,
                    avatarState, avatarInit, checking, send, promise, turnsLeft,
                    scriptText, cycle, aiCalls, tableVars, report, tts >>

\* ChatBot.tsx 430-436: clearConversation has returned, which it does on a
\* failed clear as well: the log is emptied and Memory Cleared is shown
UiAfterClear(u, seen) ==
    [u EXCEPT !.clear = "idle", !.clearResult = seen,
              !.messages = << >>, !.toast = "Memory Cleared"]

\* ElizaApiService 373-380 and ChatBot.tsx 430-436: the clear request has
\* settled; clearConversationMemory drops the snapshot on success and
\* swallows a failure, clearConversation returns and the handler goes on:
\* clearQueue, setMessages([]), toast
UiClearSettled ==
    /\ ui.clear = "awaiting"
    /\ req["clear"].phase = "replied"
    /\ LET seen == StoreOutcome(req["clear"].result) IN
       /\ conversationMemory' = IF seen = "ok" THEN Null ELSE conversationMemory
       /\ ui' = [UiAfterClear(ui, seen) EXCEPT
                    !.clearedDuringAI = /\ seen = "ok"
                                        /\ ui.clearInvokedAt = "awaitAI"
                                        /\ send.pc = "awaitAI"]
       /\ tts' = IF ui'.toast = "Memory Cleared"
                   THEN [tts EXCEPT !.audioQueue = << >>,
                                    !.dropped = @ \cup {tts.audioQueue[i] :
                                                   i \in DOMAIN tts.audioQueue}]
                   ELSE tts
    /\ req' = [req EXCEPT !["clear"] = NoRequest]
    /\ UNCHANGED << model, config, conversationId, systemEndpoints, avatarObjs,
                    avatarState, avatarInit, checking, send, promise, turnsLeft,
                    scriptText, cycle, aiCalls, tableVars, report >>

----------------------------------------------------------------------------
(* TTSService (part_001).  A clip is named by the number of the speakText   *)
(* call that requested it.  An Audio element reports one of: ended, an      *)
(* error during playback, or the rejection of play().                       *)

\* the elements of a sequence
Range(seq) ==
    {seq[i] : i \in DOMAIN seq}

\* playNext starting the head of the queue whatever isPlaying says
PlayNext_unguarded(t, throws) ==
    IF t.audioQueue = << >> THEN t
    ELSE LET clip == Head(t.audioQueue) IN
         IF throws
           THEN [t EXCEPT !.audioQueue = Tail(@), !.isPlaying = FALSE]
           ELSE [t EXCEPT !.audioQueue = Tail(@),
                          !.isPlaying = TRUE,
                          !.playing = @ \cup {clip},
                          !.started = Append(@, clip),
                          !.whileDisabled = IF t.enabled THEN @ ELSE @ \cup {clip}]

\* lines 81-126: playNext returns when the queue is empty or a clip is
\* playing; else it takes the head of the queue, sets isPlaying and builds
\* and starts the Audio element; when that throws (atob on a body that is
\* not base64) isPlaying is reset
PlayNext(t, throws) ==
    IF t.audioQueue = << >> \/ t.isPlaying THEN t
    ELSE LET clip == Head(t.audioQueue) IN
         IF throws
           THEN [t EXCEPT !.audioQueue = Tail(@), !.isPlaying = FALSE]
           ELSE [t EXCEPT !.audioQueue = Tail(@),
                          !.isPlaying = TRUE,
                          !.playing = @ \cup {clip},
                          !.started = Append(@, clip),
                          !.whileDisabled = IF t.enabled THEN @ ELSE @ \cup {clip}]

\* lines 62-65 and 28-41: speakText returns when the service is disabled,
\* else it requests the speech and awaits it
SpeakText ==
    /\ tts.clips < MaxClips
    /\ tts.enabled
    /\ tts' = [tts EXCEPT !.clips = @ + 1, !.generating = @ \cup {tts.clips + 1}]
    /\ UNCHANGED << serviceVars, req, tableVars, report, ui >>

\* lines 43-59 and 66-78: the speech request of a call has settled; without
\* a clip speakText returns, with one it pushes the clip and, with autoPlay
\* and nothing playing, calls playNext
SpeechSettled(clip, gotSpeech, throws) ==
    /\ clip \in tts.generating
    /\ LET waiting == [tts EXCEPT !.generating = @ \ {clip}]
           pushed == [waiting EXCEPT
                         !.audioQueue = Append(@, clip),
                         !.enqueued = Append(@, clip),
                         !.whileDisabled = IF tts.enabled THEN @ ELSE @ \cup {clip}]
       IN tts' = IF ~gotSpeech THEN waiting
                 ELSE IF pushed.autoPlay /\ ~pushed.isPlaying
                   THEN PlayNext(pushed, throws)
                 ELSE pushed
    /\ UNCHANGED << serviceVars, req, tableVars, report, ui >>

\* lines 101-108: onended resets isPlaying and, with clips waiting, sets a
\* timer of 100 ms for playNext
ClipEnded(clip) ==
    /\ clip \in tts.playing
    /\ tts' = [tts EXCEPT !.playing = @ \ {clip},
                          !.isPlaying = FALSE,
                          !.timers = IF tts.audioQueue # << >> THEN @ + 1 ELSE @]
    /\ UNCHANGED << serviceVars, req, tableVars, report, ui >>

\* lines 110-120: onerror, or the catch of a rejected play(): isPlaying is
\* reset and nothing else is done
ClipFailed(clip) ==
    /\ clip \in tts.playing
    /\ tts' = [tts EXCEPT !.playing = @ \ {clip}, !.isPlaying = FALSE]
    /\ UNCHANGED << serviceVars, req, tableVars, report, ui >>

\* line 106: the timer set by onended fires
TimerFires(throws) ==
    /\ tts.timers > 0
    /\ tts' = PlayNext([tts EXCEPT !.timers = @ - 1], throws)
    /\ UNCHANGED << serviceVars, req, tableVars, report, ui >>

\* lines 143-145
clearQueue(t) ==
    [t EXCEPT !.audioQueue = << >>, !.dropped = @ \cup Range(t.audioQueue)]

\* lines 128-133
SetEnabled(enabled) ==
    /\ tts' = IF enabled THEN [tts EXCEPT !.enabled = TRUE]
                ELSE clearQueue([tts EXCEPT !.enabled = FALSE])
    /\ UNCHANGED << serviceVars, req, tableVars, report, ui >>

\* a caller empties the queue (ChatBot.tsx 431)
ClearQueue ==
    /\ tts' = clearQueue(tts)
    /\ UNCHANGED << serviceVars, req, tableVars, report, ui >>

\* the steps the service takes without a further call from outside
TtsProgress ==
    \/ \E clip \in 1..MaxClips, gotSpeech, throws \in BOOLEAN :
           SpeechSettled(clip, gotSpeech, throws)
    \/ \E clip \in 1..MaxClips : ClipEnded(clip) \/ ClipFailed(clip)
    \/ \E throws \in BOOLEAN : TimerFires(throws)

----------------------------------------------------------------------------
(* The dispatch specification: one browser session of the service *)

\* a record left for the identity by an earlier session
PriorRow ==
    InsertedRow(1, [sender |-> "user", content |-> t_hello])

\* the state after the constructor has run: the first monitoring cycle, the
\* avatar initialisation and the retrieve of the memory are in flight
Init ==
    /\ model \in BOOLEAN
    /\ config \in [videoAvatarEnabled : BOOLEAN]
    /\ conversationId = Null
    /\ conversationMemory = Null
    /\ systemEndpoints = [e \in Endpoints |->
          [status |-> "online", lastChecked |-> 0, responseTime |-> 0, data |-> "none"]]
    /\ avatarObjs = << [InitialAvatar EXCEPT !.isGenerating = videoModel] >>
    /\ avatarState = 1
    /\ avatarInit = IF videoModel THEN "pending" ELSE "none"
    /\ checking = [e \in Endpoints |-> "fetch"]
    /\ cycle = 1
    /\ aiCalls = 0
    /\ send = Idle
    /\ promise = Null
    /\ turnsLeft = MaxTurns
    /\ scriptText = << >>
    /\ req = [c \in Callers |->
                IF c = "init" THEN Request("retrieve", Null) ELSE NoRequest]
    /\ db \in {[k \in Identities |-> Null],
               [k \in Identities |-> IF k = "A" THEN Some(PriorRow) ELSE Null]}
    /\ nextId = 2
    /\ stores = 0
    /\ acked = [k \in Identities |-> {}]
    /\ lastRetrieve = Null
    /\ fresh = [k \in Identities |-> FALSE]
    /\ report = NoReport
    /\ ui = InitialUi
    /\ tts = InitialTts

Next ==
    \/ \E text \in Inputs : SendMessage(text)
    \/ AfterStoreUser
    \/ \E content \in Replies : AIResponds(content)
    \/ AIThrows
    \/ AfterStoreReply
    \/ AvatarUpdated
    \/ \E answer \in HashrateAnswers : ReturnAIResponse(answer)
    \/ AvatarInitDone
    \/ InitMemorySettled
    \/ \E c \in {"init", "send"} : StoreOrRetrieve(c)

Spec == Init /\ [][Next]_vars

\* every step of the session but the settling of the AI call: timers fire,
\* the gateway answers, getHashrateData is aborted after 5 s at the latest
StepsButAI ==
    \/ \E text \in Inputs : SendMessage(text)
    \/ AfterStoreUser
    \/ AfterStoreReply
    \/ AvatarUpdated
    \/ \E answer \in HashrateAnswers : ReturnAIResponse(answer)
    \/ AvatarInitDone
    \/ InitMemorySettled
    \/ \E c \in {"init", "send"} : StoreOrRetrieve(c)

\* the session in which everything but the AI backend is sure to go on: the
\* AI call may never settle
SpecAIHangs ==
    Init /\ [][Next]_vars /\ WF_vars(StepsButAI)

\* every step of the session but those of the gateway and of the network on
\* a store request of the dispatcher
StepsButStore ==
    \/ \E text \in Inputs : SendMessage(text)
    \/ AfterStoreUser
    \/ \E content \in Replies : AIResponds(content)
    \/ AIThrows
    \/ AfterStoreReply
    \/ AvatarUpdated
    \/ \E answer \in HashrateAnswers : ReturnAIResponse(answer)
    \/ AvatarInitDone
    \/ InitMemorySettled
    \/ StoreOrRetrieve("init")

\* the session in which everything but the store calls of the dispatcher is
\* sure to go on: a store request may never be answered
SpecStoreHangs ==
    Init /\ [][Next]_vars /\ WF_vars(StepsButStore)

----------------------------------------------------------------------------
(* The scripted dispatch: one call of sendMessage on a generated text, in a *)
(* service whose construction-time tasks have settled                       *)

\* the avatar object that initializeVideoAvatar installs
ReadyAvatar ==
    [isGenerating |-> FALSE,
     currentVideoUrl |-> "https://example.com/eliza-avatar.mp4",
     emotion |-> "neutral", isReady |-> TRUE]

InitClassify ==
    /\ scriptText \in ClassifyInputs
    /\ model \in BOOLEAN
    /\ config = [videoAvatarEnabled |-> TRUE]
    /\ conversationId = Null
    /\ conversationMemory = Null
    /\ systemEndpoints = [e \in Endpoints |->
          [status |-> "online", lastChecked |-> 0, responseTime |-> 0, data |-> "none"]]
    /\ avatarObjs = IF videoModel
                      THEN << [InitialAvatar EXCEPT !.isGenerating = TRUE], ReadyAvatar >>
                      ELSE << InitialAvatar >>
    /\ avatarState = Len(avatarObjs)
    /\ avatarInit = IF videoModel THEN "done" ELSE "none"
    /\ checking = [e \in Endpoints |-> "fetch"]
    /\ cycle = 1
    /\ aiCalls = 0
    /\ send = Idle
    /\ promise = Null
    /\ turnsLeft = 1
    /\ req = [c \in Callers |-> NoRequest]
    /\ db = [k \in Identities |-> Null]
    /\ nextId = 1
    /\ stores = 0
    /\ acked = [k \in Identities |-> {}]
    /\ lastRetrieve = Null
    /\ fresh = [k \in Identities |-> FALSE]
    /\ report = NoReport
    /\ ui = InitialUi
    /\ tts = InitialTts

NextClassify ==
    \/ SendMessage(scriptText)
    \/ AfterStoreUser
    \/ \E content \in Replies : AIResponds(content)
    \/ AIThrows
    \/ AfterStoreReply
    \/ AvatarUpdated
    \/ \E answer \in HashrateAnswers : ReturnAIResponse(answer)
    \/ GwStoreSelect("send")
    \/ GwStoreWrite("send")
    \/ GwError("send")
    \/ NetFail("send")

SpecClassify == InitClassify /\ [][NextClassify]_vars

----------------------------------------------------------------------------
(* The memory gateway under its raw callers: requests of two identities,   *)
(* served concurrently                                                     *)

\* the messages the raw callers store
Messages ==
    {[sender |-> "user", content |-> t_hello],
     [sender |-> "eliza", content |-> r_critical_alert]}

\* a caller issues a store request
RawStore(c, message) ==
    /\ req[c].phase = "none"
    /\ stores < MaxStores
    /\ stores' = stores + 1
    /\ req' = [req EXCEPT ![c] = Request("store", message)]
    /\ UNCHANGED << serviceVars, db, nextId, acked, lastRetrieve, fresh, pageVars >>

\* a caller issues a retrieve request
RawRetrieve(c) ==
    /\ req[c].phase = "none"
    /\ req' = [req EXCEPT ![c] = Request("retrieve", Null)]
    /\ UNCHANGED << serviceVars, tableVars, pageVars >>

\* a caller issues a clear request
RawClear(c) ==
    /\ req[c].phase = "none"
    /\ req' = [req EXCEPT ![c] = Request("clear", Null)]
    /\ UNCHANGED << serviceVars, tableVars, pageVars >>

\* the caller has read the answer to its request
RawSettled(c) ==
    /\ req[c].phase = "replied"
    /\ req' = [req EXCEPT ![c] = NoRequest]
    /\ UNCHANGED << serviceVars, tableVars, pageVars >>

InitMemory ==
    /\ scriptText = << >>
    /\ model = FALSE
    /\ config = [videoAvatarEnabled |-> TRUE]
    /\ conversationId = Null
    /\ conversationMemory = Null
    /\ systemEndpoints = [e \in Endpoints |->
          [status |-> "online", lastChecked |-> 0, responseTime |-> 0, data |-> "none"]]
    /\ avatarObjs = << InitialAvatar >>
    /\ avatarState = 1
    /\ avatarInit = "none"
    /\ checking = [e \in Endpoints |-> "fetch"]
    /\ cycle = 1
    /\ aiCalls = 0
    /\ send = Idle
    /\ promise = Null
    /\ turnsLeft = 0
    /\ req = [c \in Callers |-> NoRequest]
    /\ db = [k \in Identities |-> Null]
    /\ nextId = 1
    /\ stores = 0
    /\ acked = [k \in Identities |-> {}]
    /\ lastRetrieve = Null
    /\ fresh = [k \in Identities |-> FALSE]
    /\ report = NoReport
    /\ ui = InitialUi
    /\ tts = InitialTts

NextMemory ==
    \E c \in RawCallers :
        \/ \E message \in Messages : RawStore(c, message)
        \/ RawRetrieve(c)
        \/ RawClear(c)
        \/ RawSettled(c)
        \/ Gateway(c)

SpecMemory == InitMemory /\ [][NextMemory]_vars

----------------------------------------------------------------------------
(* The store specification: raw callers that only store, each once, over a *)
(* database and a network that do not fail; an answer stays with its       *)
(* caller                                                                   *)

NextStores ==
    \E c \in RawCallers :
        \/ \E message \in Messages : RawStore(c, message)
        \/ GwStoreSelect(c)
        \/ GwStoreWrite(c)

SpecStores == InitMemory /\ [][NextStores]_vars

----------------------------------------------------------------------------
(* The session specification: a service with an AI client answering several *)
(* turns while its endpoint checks fail one by one                          *)

SessionInputs == {t_hello, t_treasury_advice}

InitSession ==
    /\ scriptText = << >>
    /\ model = TRUE
    /\ config = [videoAvatarEnabled |-> TRUE]
    /\ conversationId = Null
    /\ conversationMemory = Null
    /\ systemEndpoints = [e \in Endpoints |->
          [status |-> "online", lastChecked |-> 0, responseTime |-> 0, data |-> "none"]]
    /\ avatarObjs = << [InitialAvatar EXCEPT !.isGenerating = TRUE] >>
    /\ avatarState = 1
    /\ avatarInit = "pending"
    /\ checking = [e \in Endpoints |-> "fetch"]
    /\ cycle = 1
    /\ aiCalls = 0
    /\ send = Idle
    /\ promise = Null
    /\ turnsLeft = MaxSessionTurns
    /\ req = [c \in Callers |->
                IF c = "init" THEN Request("retrieve", Null) ELSE NoRequest]
    /\ db \in {[k \in Identities |-> Null],
                [k \in Identities |-> IF k = "A" THEN Some(PriorRow) ELSE Null]}
    /\ nextId = 2
    /\ stores = 0
    /\ acked = [k \in Identities |-> {}]
    /\ lastRetrieve = Null
    /\ fresh = [k \in Identities |-> FALSE]
    /\ report = NoReport
    /\ ui = InitialUi
    /\ tts = InitialTts

NextSession ==
    \/ \E text \in SessionInputs : SendMessage(text)
    \/ AfterStoreUser
    \/ AIResponds(r_critical_alert)
    \/ AIThrows
    \/ AfterStoreReply
    \/ AvatarUpdated
    \/ ReturnAIResponse(Null)
    \/ AvatarInitDone
    \/ InitMemorySettled
    \/ GwRetrieve("init")
    \/ GwStoreSelect("send")
    \/ GwStoreWrite("send")
    \/ \E e \in Endpoints, rt \in ResponseTimes : EndpointFailed(e, rt)

SpecSession ==
    InitSession /\ [][NextSession]_vars

----------------------------------------------------------------------------
(* The monitor specification: the endpoint monitor of an idle service *)

InitMonitor ==
    /\ scriptText = << >>
    /\ model \in BOOLEAN
    /\ config = [videoAvatarEnabled |-> FALSE]
    /\ conversationId = Null
    /\ conversationMemory = Null
    /\ systemEndpoints = [e \in Endpoints |->
          [status |-> "online", lastChecked |-> 0, responseTime |-> 0, data |-> "none"]]
    /\ avatarObjs = << InitialAvatar >>
    /\ avatarState = 1
    /\ avatarInit = "none"
    /\ checking = [e \in Endpoints |-> "fetch"]
    /\ cycle = 1
    /\ aiCalls = 0
    /\ send = Idle
    /\ promise = Null
    /\ turnsLeft = 0
    /\ req = [c \in Callers |-> NoRequest]
    /\ db = [k \in Identities |-> Null]
    /\ nextId = 1
    /\ stores = 0
    /\ acked = [k \in Identities |-> {}]
    /\ lastRetrieve = Null
    /\ fresh = [k \in Identities |-> FALSE]
    /\ report = NoReport
    /\ ui = InitialUi
    /\ tts = InitialTts

NextMonitor ==
    \/ Monitor
    \/ StartCycle

SpecMonitor ==
    InitMonitor /\ [][NextMonitor]_vars

----------------------------------------------------------------------------
(* Properties of the dispatcher (Spec, SpecClassify) *)

\* the latest call of sendMessage has settled
Settled ==
    promise # Null

\* the settled call took the fallback: no model, or the AI call threw
TookFallback ==
    Settled /\ promise[1].ai # "answered"

\* some keyword of the set occurs in the text
AnyOf(text, keywords) ==
    \E kw \in keywords : includes(text, kw)

DecisionTypes ==
    {"autonomous", "advisory", "emergency", "general"}

\* C1: whatever the remote calls did (no AI client, AI call answered, AI
\* call threw, store failed or answered with an error), a settled call of
\* sendMessage has resolved with an ElizaResponse; it has never rejected.
C1_SendMessageNeverRejects ==
    Settled =>
        /\ promise[1].outcome = "resolved"
        /\ {"content", "confidence_score", "decision_type"}
               \subseteq DOMAIN promise[1].response

\* the AI call threw after the store of the user message had failed too, and
\* the call has settled
C1_Witness ==
    /\ Settled
    /\ promise[1].ai = "threw"
    /\ promise[1].storeUser \in {"fail", "threw"}

\* C2: when the AI call threw, the value returned is exactly the fallback
\* response for the same input, and it carries nothing of an AI-backed
\* response: no confidence 0.95, no avatar_state, system_endpoints or
\* real_time_data.
C2_ThrowYieldsExactFallback ==
    (Settled /\ promise[1].ai = "threw") =>
        /\ promise[1].outcome = "resolved"
        /\ promise[1].response = getSimulatedResponse(promise[1].input)
        /\ promise[1].response.confidence_score # 95
        /\ DOMAIN promise[1].response \cap
               {"avatar_state", "system_endpoints", "real_time_data"} = {}

\* a call whose AI call threw has settled, on an input that has a trigger of
\* the fallback table
C2_Witness ==
    /\ Settled
    /\ promise[1].ai = "threw"
    /\ promise[1].response.content = TreasuryContent

\* C3: without an AI client sendMessage never reaches the AI call and returns
\* the fallback response of its input; for "hello" that is the greeting
\* template with decision_type general and confidence_score 0.85.
C3_NoModelNoAICall ==
    ~model =>
        /\ send.pc \in {"idle", "storeUser"}
        /\ Settled =>
              /\ promise[1].ai = "none"
              /\ promise[1].response = getSimulatedResponse(promise[1].input)
              /\ promise[1].input = t_hello =>
                    /\ promise[1].response.content = GreetingContent
                    /\ promise[1].response.decision_type = "general"
                    /\ promise[1].response.confidence_score = 85

\* "hello" has been answered by a service without an AI client
C3_Witness ==
    /\ ~model
    /\ Settled
    /\ promise[1].input = t_hello

\* C4: every response returned, AI-backed or fallback, has its confidence
\* within [0,1] (0..100 hundredths) and its decision type in the enumeration.
C4_ResponseInRange ==
    Settled =>
        /\ promise[1].response.confidence_score \in 0..100
        /\ promise[1].response.decision_type \in DecisionTypes

\* an AI-backed response has been returned
C4_Witness ==
    /\ Settled
    /\ promise[1].ai = "answered"
    /\ promise[1].response.confidence_score = 95

\* C5 as claimed: an input that contains "emergency" is answered with
\* decision_type emergency on either path.
C5_EmergencyOnEveryPath ==
    (Settled /\ includes(promise[1].input, w_emergency)) =>
        promise[1].response.decision_type = "emergency"

\* C5 as amended: an input that contains "emergency" is answered with
\* decision_type emergency on the AI-backed path, whatever else it contains;
\* on the fallback path the decision type is the one of the fallback's
\* trigger table, which is never emergency.
C5_EmergencyOnAIPath ==
    (Settled /\ includes(promise[1].input, w_emergency)) =>
        IF promise[1].ai = "answered"
          THEN promise[1].response.decision_type = "emergency"
          ELSE promise[1].response.decision_type
                   \in {"autonomous", "advisory", "general"}

\* "emergency treasury" has been answered on the AI-backed path
C5_Witness ==
    /\ Settled
    /\ promise[1].ai = "answered"
    /\ includes(promise[1].input, w_emergency)
    /\ includes(promise[1].input, w_treasury)

\* the decision kind the priority table gives for a lower-cased text
PriorityKind(lowered) ==
    IF AnyOf(lowered, {w_emergency, w_urgent, w_critical}) THEN "emergency"
    ELSE IF AnyOf(lowered, {w_governance, w_proposal, w_vote,
                            w_treasury, w_fund, w_investment}) THEN "autonomous"
    ELSE IF AnyOf(lowered, {w_recommend, w_suggest, w_advice}) THEN "advisory"
    ELSE "general"

\* C6: on the AI-success path the decision kind is the first match, over the
\* lower-cased user input, of emergency terms > governance or treasury terms
\* > advisory terms > general; the reply of the AI plays no part.
C6_DecisionFollowsPriority ==
    (Settled /\ promise[1].ai = "answered") =>
        promise[1].response.decision_type
            = PriorityKind(toLowerCase(promise[1].input))

\* an input with "treasury" (and an advisory term) and no emergency term has
\* been answered on the AI path as autonomous
C6_Witness ==
    /\ Settled
    /\ promise[1].ai = "answered"
    /\ includes(toLowerCase(promise[1].input), w_treasury)
    /\ AnyOf(toLowerCase(promise[1].input), {w_recommend, w_suggest, w_advice})
    /\ ~AnyOf(toLowerCase(promise[1].input), {w_emergency, w_urgent, w_critical})
    /\ promise[1].response.decision_type = "autonomous"

\* C7: the fallback picks content and decision kind by the first matching
\* trigger in the order governance, treasury, security, greeting, default,
\* and returns exactly one of the five canned strings.
C7_FallbackFirstTrigger ==
    TookFallback =>
        LET lowered == toLowerCase(promise[1].input)
            r == promise[1].response
            governance == AnyOf(lowered, {w_governance, w_proposal})
            treasury == AnyOf(lowered, {w_treasury, w_fund})
            security == AnyOf(lowered, {w_security, w_audit})
            greeting == AnyOf(lowered, {w_hello, w_hi})
        IN  /\ r.content \in {GovernanceContent, TreasuryContent, SecurityContent,
                              GreetingContent, DefaultContent}
            /\ governance =>
                  r.content = GovernanceContent /\ r.decision_type = "autonomous"
            /\ (~governance /\ treasury) =>
                  r.content = TreasuryContent /\ r.decision_type = "autonomous"
            /\ (~governance /\ ~treasury /\ security) =>
                  r.content = SecurityContent /\ r.decision_type = "advisory"
            /\ (~governance /\ ~treasury /\ ~security /\ greeting) =>
                  r.content = GreetingContent /\ r.decision_type = "general"
            /\ (~governance /\ ~treasury /\ ~security /\ ~greeting) =>
                  r.content = DefaultContent /\ r.decision_type = "general"

\* an input that matches the treasury, the security and the greeting trigger
\* has been answered by the fallback with the treasury outcome
C7_Witness ==
    /\ TookFallback
    /\ AnyOf(toLowerCase(promise[1].input), {w_treasury, w_fund})
    /\ AnyOf(toLowerCase(promise[1].input), {w_security, w_audit})
    /\ promise[1].response.content = TreasuryContent

\* C8: whichever trigger matched, the fallback response has confidence 0.85
\* and exactly one suggested action, the guidance entry of low risk.
C8_FallbackFixedFields ==
    TookFallback =>
        /\ promise[1].response.confidence_score = 85
        /\ Len(promise[1].response.actions_suggested) = 1
        /\ promise[1].response.actions_suggested[1].type = "guidance"
        /\ promise[1].response.actions_suggested[1].risk_level = "low"

\* the fallback has answered an input of the governance trigger
C8_Witness ==
    /\ TookFallback
    /\ promise[1].response.content = GovernanceContent

----------------------------------------------------------------------------
(* Properties of the memory gateway (SpecMemory) *)

\* the messages of a turn list
TurnsOf(memory) ==
    IF memory = Null THEN {}
    ELSE {memory[1].conversation_context[i] :
              i \in 1..Len(memory[1].conversation_context)}

\* C10: a retrieve for an identity answers with a record whose
\* conversation_context holds every message whose store for that identity
\* was acknowledged, unless a clear for the identity has taken effect since
\* that store began.
C10_StoreThenRetrieve ==
    lastRetrieve # Null =>
        \A m \in lastRetrieve[1].acked :
            /\ lastRetrieve[1].memory # Null
            /\ m \in TurnsOf(lastRetrieve[1].memory)

\* a retrieve has answered after two different messages were stored for its
\* identity
C10_Witness ==
    /\ lastRetrieve # Null
    /\ Cardinality(lastRetrieve[1].acked) = 2

\* C11: a retrieve for an identity that follows a successful clear for it,
\* with no store for the identity having written in between, answers with
\* success and memory = null: not with an error and not with a record.
C11_ClearThenRetrieve ==
    (lastRetrieve # Null /\ lastRetrieve[1].fresh) =>
        /\ lastRetrieve[1].success
        /\ lastRetrieve[1].memory = Null

\* a retrieve has answered after a clear, in a behaviour in which a record
\* had been created before
C11_Witness ==
    /\ lastRetrieve # Null
    /\ lastRetrieve[1].fresh
    /\ nextId > 1

\* C13 as claimed: what a returned response shows through its
\* system_endpoints and its avatar_state is what it showed when sendMessage
\* returned it, whatever the monitor and the avatar did since.
C13_ReturnedResponseNeverChanges ==
    (Settled /\ promise[1].ai = "answered") =>
        /\ systemEndpoints = promise[1].returned.system_endpoints
        /\ avatarObjs[promise[1].response.avatar_state]
               = promise[1].returned.avatar_state

C23_GatewayFailuresAbsorbed ==
    [][/\ (model /\ send.pc = "storeUser" /\ send'.pc # "storeUser") =>
              (send'.pc = "awaitAI" /\ promise' = Null)
       /\ (send.pc \in {"storeReply", "avatar", "realtime"} /\ send'.pc = "idle") =>
              /\ promise' # Null
              /\ promise'[1].outcome = "resolved"
              /\ promise'[1].ai = "answered"
              /\ promise'[1].response.content = send.content
              /\ promise'[1].response.confidence_score = 95
              /\ "real_time_data" \in DOMAIN promise'[1].response
       /\ (send.pc \in {"storeReply", "avatar", "realtime"}) =>
              send'.pc \in {"storeReply", "avatar", "realtime", "idle"}
       /\ (/\ req["init"].phase = "replied"
           /\ req'["init"].phase = "none"
           /\ (req["init"].result.threw \/ ~req["init"].result.success)) =>
              (conversationMemory' = Null /\ getConversationContext' = << >>)
      ]_vars

\* a dispatch has returned the AI-backed response although both of its
\* stores failed, one by a network error and one by an error answer, and
\* although the initial retrieve failed while the identity had a record
C23_Witness ==
    /\ Settled
    /\ promise[1].ai = "answered"
    /\ {promise[1].storeUser, promise[1].storeReply} = {"fail", "threw"}
    /\ conversationMemory = Null
    /\ req["init"].phase = "none"
    /\ db["A"] # Null

\* C16 as claimed: a call of sendMessage does not stay in awaiting the AI
\* response forever, even when the AI call never settles: a timeout ends the
\* wait and the call goes on to return a response.
C16_AwaitingAIEnds ==
    [](send.pc = "awaitAI" => <>(send.pc # "awaitAI"))

\* C17 as claimed: a call of sendMessage does not wait for its store
\* requests: even when one is never answered the call goes on, to the AI
\* call and to its return.
C17_StoreNeverBlocks ==
    [](send.pc \in {"storeUser", "storeReply"}
          => <>(send.pc \notin {"storeUser", "storeReply"}))

\* the turn list of the remote record of the browser session
RemoteTurns ==
    IF db[Identity("send")] = Null THEN << >>
    ELSE db[Identity("send")][1].conversation_context

\* the two messages the chat page appends to its log for a settled dispatch
ClientTurn(settled) ==
    << [sender |-> "user", content |-> settled.input],
       [sender |-> "eliza", content |-> settled.response.content] >>

\* C14 as claimed: when the store calls of a dispatch succeeded, the remote
\* record ends with the two messages the client log got from that dispatch,
\* the user message and the reply shown (AI-backed or fallback), in order.
C14_ClientLogMirrored ==
    (Settled /\ promise[1].storeUser = "ok"
             /\ promise[1].storeReply \in {"ok", "none"}) =>
        /\ Len(RemoteTurns) >= 2
        /\ SubSeq(RemoteTurns, Len(RemoteTurns) - 1, Len(RemoteTurns))
               = ClientTurn(promise[1])

\* a list without its last element
Front(seq) ==
    IF seq = << >> THEN << >> ELSE SubSeq(seq, 1, Len(seq) - 1)

\* C18 as claimed: the context embedded in the prompt of a dispatch that
\* follows another one in the session, while its AI call is awaited, is the
\* last (at most 10) turns of the remote record as it was when the prompt
\* was built, with or without the user message the dispatch has just
\* stored; so the second dispatch has the turns of the first.
C18_ContextIsRemoteRecord ==
    (send.pc = "awaitAI" /\ turnsLeft < MaxSessionTurns - 1
                         /\ req["init"].phase = "none") =>
        \/ send.context = LastTen(RemoteTurns)
        \/ send.context = LastTen(Front(RemoteTurns))

----------------------------------------------------------------------------
(* Properties of the endpoint monitor (SpecMonitor) *)----------------------------------------------------------------------------
(* The page specification: the chat page over the service and the gateway; *)
(* the page constructs the service with videoAvatarEnabled                  *)

InitPage ==
    /\ scriptText = << >>
    /\ model \in BOOLEAN
    /\ config = [videoAvatarEnabled |-> TRUE]
    /\ conversationId = Null
    /\ conversationMemory = Null
    /\ systemEndpoints = [e \in Endpoints |->
          [status |-> "online", lastChecked |-> 0, responseTime |-> 0, data |-> "none"]]
    /\ avatarObjs = << [InitialAvatar EXCEPT !.isGenerating = videoModel] >>
    /\ avatarState = 1
    /\ avatarInit = IF videoModel THEN "pending" ELSE "none"
    /\ checking = [e \in Endpoints |-> "fetch"]
    /\ cycle = 1
    /\ aiCalls = 0
    /\ send = Idle
    /\ promise = Null
    /\ turnsLeft = MaxTurns
    /\ req = [c \in Callers |->
                IF c = "init" THEN Request("retrieve", Null) ELSE NoRequest]
    /\ db = [k \in Identities |-> Null]
    /\ nextId = 2
    /\ stores = 0
    /\ acked = [k \in Identities |-> {}]
    /\ lastRetrieve = Null
    /\ fresh = [k \in Identities |-> FALSE]
    /\ report = NoReport
    /\ ui = InitialUi
    /\ tts = InitialTts

NextPage ==
    \/ \E text \in PageInputs : UiType(text)
    \/ UiSendMessage
    \/ UiResponseArrives
    \/ \E gotSpeech \in BOOLEAN : UiSpeechSettled(gotSpeech)
    \/ UiClearConversation
    \/ UiClearSettled
    \/ AfterStoreUser
    \/ AIResponds(r_critical_alert)
    \/ AIThrows
    \/ AfterStoreReply
    \/ AvatarUpdated
    \/ ReturnAIResponse(Null)
    \/ AvatarInitDone
    \/ InitMemorySettled
    \/ \E c \in ServiceCallers : Gateway(c)

SpecPage ==
    InitPage /\ [][NextPage]_vars

----------------------------------------------------------------------------
(* The turns specification: the chat page over several dispatches, the     *)
(* clear button left alone                                                  *)

InitTurns ==
    /\ scriptText = << >>
    /\ model \in BOOLEAN
    /\ config = [videoAvatarEnabled |-> TRUE]
    /\ conversationId = Null
    /\ conversationMemory = Null
    /\ systemEndpoints = [e \in Endpoints |->
          [status |-> "online", lastChecked |-> 0, responseTime |-> 0, data |-> "none"]]
    /\ avatarObjs = << [InitialAvatar EXCEPT !.isGenerating = videoModel] >>
    /\ avatarState = 1
    /\ avatarInit = IF videoModel THEN "pending" ELSE "none"
    /\ checking = [e \in Endpoints |-> "fetch"]
    /\ cycle = 1
    /\ aiCalls = 0
    /\ send = Idle
    /\ promise = Null
    /\ turnsLeft = MaxSessionTurns
    /\ req = [c \in Callers |->
                IF c = "init" THEN Request("retrieve", Null) ELSE NoRequest]
    /\ db = [k \in Identities |-> Null]
    /\ nextId = 2
    /\ stores = 0
    /\ acked = [k \in Identities |-> {}]
    /\ lastRetrieve = Null
    /\ fresh = [k \in Identities |-> FALSE]
    /\ report = NoReport
    /\ ui = InitialUi
    /\ tts = InitialTts

NextTurns ==
    \/ \E text \in PageInputs : UiType(text)
    \/ UiSendMessage
    \/ UiResponseArrives
    \/ \E gotSpeech \in BOOLEAN : UiSpeechSettled(gotSpeech)
    \/ AfterStoreUser
    \/ AIResponds(r_critical_alert)
    \/ AIThrows
    \/ AfterStoreReply
    \/ AvatarUpdated
    \/ ReturnAIResponse(Null)
    \/ AvatarInitDone
    \/ InitMemorySettled
    \/ \E c \in {"init", "send"} : StoreOrRetrieve(c)

SpecTurns ==
    InitTurns /\ [][NextTurns]_vars

----------------------------------------------------------------------------
(* The speech specification: one TTSService under its callers              *)

\* a new TTSService; the dispatcher and the gateway are idle and stay so
InitTTS ==
    InitMemory

NextTTS ==
    \/ SpeakText
    \/ \E enabled \in BOOLEAN : SetEnabled(enabled)
    \/ ClearQueue
    \/ TtsProgress

SpecTTS ==
    InitTTS /\ [][NextTTS]_vars

\* every speech request settles, every clip started ends or fails, every
\* timer fires
SpecTTSFair ==
    InitTTS /\ [][NextTTS]_vars /\ WF_vars(TtsProgress)

----------------------------------------------------------------------------
(* The report specification: getSystemReport is called on an idle service  *)
(* while the cycle that the constructor started is in flight; of that       *)
(* cycle only failing checks are followed                                   *)

InitReport ==
    /\ scriptText = << >>
    /\ model = TRUE
    /\ config = [videoAvatarEnabled |-> FALSE]
    /\ conversationId = Null
    /\ conversationMemory = Null
    /\ systemEndpoints = [e \in Endpoints |->
          [status |-> "online", lastChecked |-> 0, responseTime |-> 0, data |-> "none"]]
    /\ avatarObjs = << InitialAvatar >>
    /\ avatarState = 1
    /\ avatarInit = "none"
    /\ checking = [e \in Endpoints |-> "fetch"]
    /\ cycle = 1
    /\ aiCalls = 0
    /\ send = Idle
    /\ promise = Null
    /\ turnsLeft = 0
    /\ req = [c \in Callers |-> NoRequest]
    /\ db = [k \in Identities |-> Null]
    /\ nextId = 1
    /\ stores = 0
    /\ acked = [k \in Identities |-> {}]
    /\ lastRetrieve = Null
    /\ fresh = [k \in Identities |-> FALSE]
    /\ report = NoReport
    /\ ui = InitialUi
    /\ tts = InitialTts

NextReport ==
    \/ \E e \in Endpoints, rt \in ResponseTimes : EndpointFailed(e, rt)
    \/ GetSystemReport
    \/ \E e \in Endpoints, ok \in BOOLEAN, rt \in ResponseTimes :
           ReportEndpointAnswered(e, ok, rt)
    \/ \E e \in Endpoints, isJson \in BOOLEAN : ReportEndpointBodyRead(e, isJson)
    \/ \E e \in Endpoints, rt \in ResponseTimes : ReportEndpointFailed(e, rt)
    \/ ReportReturns

SpecReport ==
    InitReport /\ [][NextReport]_vars


C21_StatusAndPayloadOfACheck ==
    \A e \in Endpoints :
        CheckSettled(e) =>
            /\ systemEndpoints[e].status = "online" <=> checking[e] = "done_ok"
            /\ systemEndpoints[e].status = "degraded" <=> checking[e] = "done_notok"
            /\ systemEndpoints[e].status = "offline" <=> checking[e] = "done_threw"
            /\ systemEndpoints[e].data = "error" <=> checking[e] = "done_threw"
            /\ checking[e] # "done_threw" =>
                   systemEndpoints[e].data \in {"json", "accessible"}

\* in a cycle after the first, one endpoint has answered not OK with a body
\* that could not be parsed, one has answered OK with a JSON body and one has
\* failed
C21_Witness ==
    /\ cycle > 1
    /\ \E a, b, c \in Endpoints :
           /\ checking[a] = "done_notok"
           /\ systemEndpoints[a].data = "accessible"
           /\ checking[b] = "done_ok"
           /\ systemEndpoints[b].data = "json"
           /\ checking[c] = "done_threw"
           /\ systemEndpoints[c].data = "error"

\* C22: the report that getSystemReport returns is computed from records
\* written by the checks of the cycle it started: every endpoint of the
\* result has the status that the report's own check of it found, and
\* overall_health is the share of the endpoints that this cycle found online.
C22_ReportFromItsOwnCycle ==
    report.pc = "returned" =>
        /\ \A e \in Endpoints :
               report.result[1].endpoints[e].status = StatusOf(report.checking[e])
        /\ report.result[1].overall_health =
               (Cardinality({e \in Endpoints : report.checking[e] = "done_ok"}) * 100)
                   \div NumEndpoints

----------------------------------------------------------------------------
(* Properties of the chat page (SpecPage) *)

\* nothing of the page or of the service is in flight
PageQuiet ==
    /\ ui.pc = "idle"
    /\ ui.clear = "idle"
    /\ send.pc = "idle"
    /\ \A c \in ServiceCallers : req[c].phase = "none"

\* C24: when a clear was invoked and succeeded while the dispatch was
\* awaiting the AI response, then, once the dispatch and the clear have
\* completed and no further message was sent, the identity of the page has no
\* remote record and every reply in the log of the page stands behind the
\* user message it answers.
C24_ClearNotUndoneByDispatch ==
    (ui.clearedDuringAI /\ PageQuiet) =>
        /\ db[Identity("send")] = Null
        /\ \A i \in DOMAIN ui.messages :
               (ui.messages[i].sender = "eliza" /\ ui.messages[i].type = "text") =>
                   (i > 1 /\ ui.messages[i - 1].sender = "user")

\* C25: the page shows Memory Cleared and has emptied its log only when the
\* clear request succeeded; after a failed clear, and as long as no message
\* has been sent, it shows the error toast and has kept its log.
C25_ClearedOnlyOnSuccess ==
    (ui.clear = "idle" /\ ui.clearResult \in {"fail", "threw"} /\ ui.pc = "idle"
        /\ turnsLeft = MaxTurns) =>
        /\ ui.toast = "Error"
        /\ ui.messages # << >>

\* C27: at most one call of the page's sendMessage handler is in flight;
\* isTyping is true exactly while one is, and the service is dispatching only
\* then; while isTyping the input, disabled and emptied by the handler, stays
\* empty; and no dispatch was started on a blank input: every user message of
\* the log, and the message being dispatched, has a non-blank text.
C27_OneDispatchAtATime ==
    /\ ui.inFlight <= 1
    /\ ui.isTyping <=> ui.inFlight = 1
    /\ ui.isTyping <=> ui.pc # "idle"
    /\ send.pc # "idle" => ui.isTyping
    /\ ui.isTyping => ui.inputValue = << >>
    /\ \A i \in DOMAIN ui.messages :
           ui.messages[i].sender = "user" => Trim(ui.messages[i].content) # << >>
    /\ send.pc # "idle" => Trim(send.message) # << >>

\* the first dispatch has ended with its reply in the log and isTyping reset,
\* the input holds only blanks and a dispatch may still be started
C27_Witness ==
    /\ turnsLeft = MaxSessionTurns - 1
    /\ ~ui.isTyping
    /\ ui.inFlight = 0
    /\ Len(ui.messages) = 3
    /\ ui.inputValue # << >>
    /\ Trim(ui.inputValue) = << >>

----------------------------------------------------------------------------
(* Properties of the remote table (SpecMemory) *)

\* C19: whatever stores and clears have been served, concurrently or not, an
\* identity has at most one row; an identity with an acknowledged store that
\* no clear has followed has a row; and in every row total_interactions is
\* the number of turns in conversation_context.
C19_OneRowCountsItsTurns ==
    \A k \in Identities :
        /\ Len(db[k]) <= 1
        /\ acked[k] # {} => db[k] # Null
        /\ db[k] # Null =>
               db[k][1].total_interactions = Len(db[k][1].conversation_context)

\* a record created by one store and extended by another, both acknowledged
C19_Witness ==
    \E k \in Identities :
        /\ db[k] # Null
        /\ db[k][1].total_interactions = 2
        /\ Cardinality(acked[k]) = 2

\* the turn list of an identity, empty when it has no row
TurnsAt(table, k) ==
    IF table[k] = Null THEN << >> ELSE table[k][1].conversation_context

\* the step is the serving of a clear request
ClearServed ==
    \E c \in Callers :
        /\ req[c].phase = "sent"
        /\ req[c].action = "clear"
        /\ req'[c].phase = "replied"

\* C20: in every step that is not the serving of a clear the turn list of
\* every identity keeps its turns in place and gains at most one at its end;
\* a store that is acknowledged, no clear having deleted the row between its
\* SELECT and its write, adds exactly its message at the end.
C20_TurnsOnlyAppended ==
    [][\A k \in Identities :
          LET before == TurnsAt(db, k)
              after == TurnsAt(db', k)
          IN  /\ ~ClearServed =>
                    /\ Len(after) \in {Len(before), Len(before) + 1}
                    /\ SubSeq(after, 1, Len(before)) = before
              /\ \A c \in Callers :
                    (/\ Identity(c) = k
                     /\ req[c].phase = "selected"
                     /\ ~req[c].cleared
                     /\ req'[c] = Replied(Answer(TRUE, Null)))
                        => after = Append(before, req[c].message)
      ]_vars

\* a record holds two different turns, the later one stored behind the
\* earlier one
C20_Witness ==
    \E k \in Identities :
        /\ Len(TurnsAt(db, k)) = 2
        /\ TurnsAt(db, k)[1] # TurnsAt(db, k)[2]

\* the callers of an identity whose store request has been answered
Answered(k) ==
    {c \in RawCallers : Identity(c) = k /\ req[c].phase = "replied"}

\* C26: stores of one identity that run concurrently all take effect, the
\* first stores of an identity included: every store that has returned was
\* answered with success, and the record of the identity holds one turn for
\* each of them, counted by total_interactions.
C26_ConcurrentStoresAllTakeEffect ==
    \A k \in Identities :
        /\ \A c \in Answered(k) : req[c].result.success
        /\ Len(TurnsAt(db, k)) = Cardinality(Answered(k))
        /\ db[k] # Null => db[k][1].total_interactions = Cardinality(Answered(k))

----------------------------------------------------------------------------
(* Properties of the TTS service (SpecTTS, SpecTTSFair) *)

\* C28: a clip on the queue does not stay there: it is taken off to be
\* started, or clearQueue removes it, also when the clip before it ended,
\* failed to start or failed during playback and speakText is not called
\* again.
C28_QueuedClipIsPlayed ==
    \A clip \in 1..MaxClips :
        [](clip \in Range(tts.audioQueue) => <>(clip \notin Range(tts.audioQueue)))

\* C29: while the service is disabled its queue is empty, and no clip was
\* ever pushed or started at a moment when the service was disabled, also
\* not by a speakText call that was awaiting its speech when the service was
\* disabled.
C29_DisabledServiceIsSilent ==
    /\ ~tts.enabled => tts.audioQueue = << >>
    /\ tts.whileDisabled = {}

\* the clips of a sequence that are in a set, in the order of the sequence
RECURSIVE Restrict(_, _)
Restrict(seq, set) ==
    IF seq = << >> THEN << >>
    ELSE (IF Head(seq) \in set THEN << Head(seq) >> ELSE << >>)
             \o Restrict(Tail(seq), set)

\* C30: at most one clip is playing at any moment; isPlaying is true exactly
\* while a clip that was started has not reported its end, its playback error
\* or the failure of its start; the clips were started in the order in which
\* they were pushed on the queue, each at most once; and the queue holds, in
\* that order, pushed clips that were neither started nor removed.
C30_OneClipAtATimeInOrder ==
    /\ Cardinality(tts.playing) <= 1
    /\ tts.isPlaying <=> tts.playing # {}
    /\ tts.playing \subseteq Range(tts.started)
    /\ tts.started = Restrict(tts.enqueued, Range(tts.started))
    /\ Cardinality(Range(tts.started)) = Len(tts.started)
    /\ tts.audioQueue = Restrict(tts.enqueued, Range(tts.audioQueue))
    /\ Range(tts.audioQueue) \cap (Range(tts.started) \cup tts.dropped) = {}

\* three clips have been started one after the other, pushed in another
\* order than they were requested, and the last of them is playing
C30_Witness ==
    /\ Len(tts.started) = 3
    /\ tts.started # << 1, 2, 3 >>
    /\ tts.isPlaying
    /\ tts.playing = {tts.started[3]}

====
